---- MODULE Spec2Model ----
(***************************************************************************)
(* Verification model of the credit-insight service core:                  *)
(*   - BureauHttpClientService.checkCredit : the retrying credit-check     *)
(*     client (src/src/bureau/bureau.controller.ts, src/unnamed/part_007)  *)
(*   - CsvParserService.parseCSV / parseRow and the row loop of            *)
(*     StatementsService.processStatementFromBuffer                        *)
(*   - InsightsService.runInsights over the statement / transaction /      *)
(*     insight stores                                                      *)
(***************************************************************************)
EXTENDS Integers, Sequences, FiniteSets, TLC

(***************************************************************************)
(* Bounds of the model                                                     *)
(***************************************************************************)
\* largest configured BUREAU_MAX_RETRIES explored
MaxRetriesBound == 3

\* largest BUREAU_MAX_RETRIES explored with two calls side by side
MaxPairRetries == 1

\* largest retry attempt handed to a stand-alone calculateBackoffDelay
MaxBackoffAttempt == 4

\* number of equally spaced values Math.random() is given
JitterSteps == 10

\* default of BUREAU_MAX_RETRIES
DefaultMaxRetries == 3

\* longest input of the parseCSV pass / of an upload, in rows
MaxRows == 3
MaxUploadRows == 2
MaxAround == 1
MaxStoreFaults == 1
MaxDescriptionRows == 2

\* longest transaction list handed to a stand-alone computeInsights
MaxTransactions == 3
MaxRiskTransactions == 7
MaxBucketTransactions == 3

\* the two credit-check invocations the model can run side by side
Calls == {1, 2}

(***************************************************************************)
(* Generic helpers                                                         *)
(***************************************************************************)
Last(s) == s[Len(s)]

(***************************************************************************)
(* State                                                                   *)
(***************************************************************************)
VARIABLES
    \* BureauHttpClientService.checkCredit
    maxRetries,      \* configService.get('BUREAU_MAX_RETRIES', 3)
    ccPc,            \* per call: "off" | "idle" | "inflight" | "sleeping" | "returned" |
                     \*           "rejected"
    attempt,         \* per call: loop variable of checkCredit
    retryCount,      \* per call: local retryCount
    lastError,       \* per call: local lastError
    httpStatusCode,  \* per call: local httpStatusCode
    ccResult,        \* per call: the BureauRequestResult returned, or NoResult
    ccTrace,         \* per call: history of attempt / result / sleep events
    \* the ingestion pass (locals of parseCSV / processStatementFromBuffer)
    fileRows,        \* the rows of the input buffer, in order
    transactions,    \* collected transactions
    errors,          \* collected row error messages
    totalRows,
    successfulRows,
    failedRows,
    parsePc,         \* parseCSV: "off" | "reading" | "resolved" | "rejected"
    parseResult,     \* parseCSV: the ParseResult the promise resolved with
    \* upload and stores
    upPc,            \* upload: "off" | "idle" | "created" | "reading" | "saving" |
                     \*         "saved" | "catch" | "done"
    statement,       \* the statements row of the upload (NoStatement: no row)
    txStore,         \* the transactions rows of the statement
    insightStore,    \* the insights rows of the statement
    nextInsightId,   \* ids handed out to inserted insights
    unawaited,       \* status updates issued without await, not yet applied
    saveIndex,       \* loop variable i of the chunked save
    uploadResponse,  \* what processStatementFromBuffer resolved with
    chunkSize,       \* const chunkSize of the 'end' handler; no step changes it
    \* InsightsService.runInsights
    reqPc,           \* per request: "idle" | "lookup" | "findStatement" |
                     \*   "findInsight" | "findTransactions" | "save" | "done"
    reqComputed,     \* per request: the ComputedInsights it holds
    reqOutcome,      \* per request: what the call returned or threw
    computeCalls,    \* number of computeInsights invocations so far
    \* InsightsComputationService.computeInsights called on its own
    computePc,       \* "off" | "called" | "returned" | "threw"
    computeInput,    \* the rows transactionRepository.find returned
    computeOutput,   \* the ComputedInsights returned, or NoInsights
    \* BureauHttpClientService.calculateBackoffDelay called on its own
    delayPc,         \* "off" | "called" | "returned"
    delayBase,       \* BUREAU_RETRY_DELAY_MS
    delayAttempt,    \* the attempt the delay is computed for
    delayValue,      \* the delay returned, in 1/DelayScale ms
    \* BureauService.checkCredit
    bsPc,            \* "off" | "idle" | "create" | "call" | "awaiting" | "updateSuccess" |
                     \*   "fetch" | "updateFailed" | "catchFind" | "catchUpdate" | "done"
    bureauReport,    \* the bureau_reports row of the call (NoReport: no row)
    bsOutcome,       \* "<pending>" | "returned" | "threw"
    storeFaults      \* repository calls of the invocation that were rejected

clientVars == << maxRetries, ccPc, attempt, retryCount, lastError,
                 httpStatusCode, ccResult, ccTrace >>

passVars == << fileRows, transactions, errors, totalRows, successfulRows, failedRows >>

parseVars == << parsePc, parseResult >>

storeVars == << statement, txStore, insightStore, nextInsightId, unawaited, saveIndex,
                uploadResponse >>

requestVars == << reqPc, reqComputed, reqOutcome, computeCalls >>

computeVars == << computePc, computeInput, computeOutput >>

delayVars == << delayPc, delayBase, delayAttempt, delayValue >>

configVars == << chunkSize >>

bureauVars == << bsPc, bureauReport, bsOutcome, storeFaults >>

vars == << clientVars, passVars, parseVars, upPc, storeVars, requestVars, computeVars,
           delayVars, configVars, bureauVars >>

\* what the steps of one component leave alone
nonClientVars == << passVars, parseVars, upPc, storeVars, requestVars, computeVars,
                    delayVars, configVars, bureauVars >>
nonParseVars == << clientVars, upPc, storeVars, requestVars, computeVars, delayVars,
                   configVars, bureauVars >>
nonStoreVars == << clientVars, parseVars, computeVars, delayVars, configVars, bureauVars >>
nonComputeVars == << clientVars, passVars, parseVars, upPc, storeVars, requestVars,
                     delayVars, configVars, bureauVars >>
nonDelayVars == << clientVars, passVars, parseVars, upPc, storeVars, requestVars,
                   computeVars, configVars, bureauVars >>
nonBureauVars == << passVars, parseVars, upPc, storeVars, requestVars, computeVars,
                    delayVars, configVars >>

(***************************************************************************)
(* Resilient integration client                                            *)
(***************************************************************************)
\* `error` values: the text, and for the exhaustion message the retry count
\* interpolated in front of it ("Failed after <n> retries: <text>")
PlainError(text) == [failedAfter |-> -1, text |-> text]
FailedAfterError(n, text) == [failedAfter |-> n, text |-> text]
UndefinedError == [failedAfter |-> -1, text |-> "<undefined>"]

NoResult == [success |-> FALSE, data |-> "<none>", error |-> UndefinedError,
             httpStatusCode |-> -1, retryCount |-> -1]

\* HTTP statuses a failing downstream response can carry (0: no response)
ErrorStatuses == {0, 400, 401, 403, 404, 422, 429, 500, 502, 503, 504}

\* messages of the errors the in-process bureau can throw
ThrownTexts == {"Invalid request data", "Rate limit exceeded", "Unauthorized",
                "Internal server error", "", "<non-Error>"}

\* what one downstream attempt can produce
Downstream ==
    { [kind |-> "ok", status |-> 200, text |-> "payload"] }
    \cup { [kind |-> "http", status |-> s, text |-> "Network Error"] : s \in ErrorStatuses }
    \cup { [kind |-> "thrown", status |-> -1, text |-> t] : t \in ThrownTexts }

\* extractErrorMessage: the fallback text per response status
ExtractErrorMessage(d) ==
    CASE d.status = 400 -> "Bad request - invalid data provided"
      [] d.status = 401 -> "Unauthorized - invalid API key"
      [] d.status = 403 -> "Forbidden - access denied"
      [] d.status = 404 -> "Service not found"
      [] d.status = 429 -> "Rate limit exceeded"
      [] d.status = 500 -> "Bureau service internal error"
      [] d.status = 502 -> "Bureau service unavailable"
      [] d.status = 503 -> "Bureau service temporarily unavailable"
      [] d.status = 504 -> "Bureau service timeout"
      [] d.status = 0   -> d.text
      [] OTHER          -> "HTTP <status>"

\* the catch block of makeRequest (in-process bureau): message -> status
MockStatusCode(text) ==
    IF text = "Invalid request data" THEN 400
    ELSE IF text = "Rate limit exceeded" THEN 429
    ELSE IF text = "Unauthorized" THEN 401
    ELSE 500

\* error instanceof Error ? error.message : 'Unknown error'
MockErrorMessage(text) == IF text = "<non-Error>" THEN "Unknown error" ELSE text

\* makeRequest: never throws, turns the downstream outcome into a result
MakeRequest(d) ==
    IF d.kind = "ok"
    THEN [success |-> TRUE, data |-> d.text, error |-> UndefinedError,
          httpStatusCode |-> d.status, retryCount |-> 0]
    ELSE IF d.kind = "http"
    THEN [success |-> FALSE, data |-> "<none>",
          error |-> PlainError(ExtractErrorMessage(d)),
          httpStatusCode |-> d.status, retryCount |-> 0]
    ELSE [success |-> FALSE, data |-> "<none>",
          error |-> PlainError(MockErrorMessage(d.text)),
          httpStatusCode |-> MockStatusCode(MockErrorMessage(d.text)),
          retryCount |-> 0]

RetryableStatuses_NoNetwork == {429, 500, 502, 503, 504}
RetryableStatuses == {0, 429, 500, 502, 503, 504}

IsRetryableError_Plus404(statusCode) == statusCode \in RetryableStatuses \cup {404}
IsRetryableError(statusCode) == statusCode \in RetryableStatuses

\* result.error || 'Unknown error'
ErrorOrUnknown(e) == IF e.text = "" THEN "Unknown error" ELSE e.text

AttemptEvent == [ev |-> "attempt", success |-> FALSE, status |-> -1, text |-> ""]
SleepEvent == [ev |-> "sleep", success |-> FALSE, status |-> -1, text |-> ""]
ResultEvent(r) == [ev |-> "result", success |-> r.success,
                   status |-> r.httpStatusCode, text |-> r.error.text]

\* the loop condition of checkCredit: attempt <= maxRetries
LoopContinues_OffByOne(a) == a <= maxRetries + 1
LoopContinues(a) == a <= maxRetries

ClientInit(active) ==
    /\ maxRetries \in 0..MaxRetriesBound
    /\ ccPc = [c \in Calls |-> IF c \in active THEN "idle" ELSE "off"]
    /\ attempt = [c \in Calls |-> 0]
    /\ retryCount = [c \in Calls |-> 0]
    /\ lastError = [c \in Calls |-> ""]
    /\ httpStatusCode = [c \in Calls |-> 0]
    /\ ccResult = [c \in Calls |-> NoResult]
    /\ ccTrace = [c \in Calls |-> << >>]

\* the values checkCredit can be handed as its request
RequestValues == {"valid", "noEmail", "null", "undefined"}

\* request.email in the first log line: a TypeError on null and undefined
ReadingEmailThrows(request) == request \in {"null", "undefined"}

\* checkCredit throws before its loop: the promise it returned is rejected
CheckCreditRejects(c) ==
    /\ ccPc[c] = "idle"
    /\ \E request \in RequestValues : ReadingEmailThrows(request)
    /\ ccPc' = [ccPc EXCEPT ![c] = "rejected"]
    /\ UNCHANGED << maxRetries, attempt, retryCount, lastError, httpStatusCode,
                    ccResult, ccTrace >>
    /\ UNCHANGED nonClientVars

\* checkCredit up to its first await: attempt 0 goes out without a sleep
CheckCreditStart(c) ==
    /\ ccPc[c] = "idle"
    /\ \E request \in RequestValues : ~ReadingEmailThrows(request)
    /\ ccPc' = [ccPc EXCEPT ![c] = "inflight"]
    /\ attempt' = [attempt EXCEPT ![c] = 0]
    /\ retryCount' = [retryCount EXCEPT ![c] = 0]
    /\ lastError' = [lastError EXCEPT ![c] = ""]
    /\ httpStatusCode' = [httpStatusCode EXCEPT ![c] = 0]
    /\ ccTrace' = [ccTrace EXCEPT ![c] = Append(@, AttemptEvent)]
    /\ UNCHANGED << maxRetries, ccResult >>
    /\ UNCHANGED nonClientVars

\* (variant that returns makeRequest's result as it is)
AttemptSucceeds_RawResult(c) ==
    /\ ccPc[c] = "inflight"
    /\ \E d \in Downstream :
         LET result == MakeRequest(d) IN
         /\ result.success
         /\ ccResult' = [ccResult EXCEPT ![c] = result]
         /\ ccTrace' = [ccTrace EXCEPT ![c] = Append(@, ResultEvent(result))]
    /\ ccPc' = [ccPc EXCEPT ![c] = "returned"]
    /\ UNCHANGED << maxRetries, attempt, retryCount, lastError, httpStatusCode >>
    /\ UNCHANGED nonClientVars

\* the attempt in flight succeeded: return { ...result, retryCount }
AttemptSucceeds(c) ==
    /\ ccPc[c] = "inflight"
    /\ \E d \in Downstream :
         LET result == MakeRequest(d) IN
         /\ result.success
         /\ ccResult' = [ccResult EXCEPT ![c] = [result EXCEPT !.retryCount = retryCount[c]]]
         /\ ccTrace' = [ccTrace EXCEPT ![c] = Append(@, ResultEvent(result))]
    /\ ccPc' = [ccPc EXCEPT ![c] = "returned"]
    /\ UNCHANGED << maxRetries, attempt, retryCount, lastError, httpStatusCode >>
    /\ UNCHANGED nonClientVars

\* the attempt in flight failed with a status isRetryableError rejects
AttemptFailsPermanently(c) ==
    /\ ccPc[c] = "inflight"
    /\ \E d \in Downstream :
         LET result == MakeRequest(d) IN
         /\ ~result.success
         /\ ~IsRetryableError(result.httpStatusCode)
         /\ ccResult' = [ccResult EXCEPT ![c] = [result EXCEPT !.retryCount = retryCount[c]]]
         /\ ccTrace' = [ccTrace EXCEPT ![c] = Append(@, ResultEvent(result))]
    /\ ccPc' = [ccPc EXCEPT ![c] = "returned"]
    /\ UNCHANGED << maxRetries, attempt, retryCount, lastError, httpStatusCode >>
    /\ UNCHANGED nonClientVars

\* (variant that sends the next attempt without sleeping)
AttemptFailsRetry_NoSleep(c) ==
    /\ ccPc[c] = "inflight"
    /\ LoopContinues(attempt[c] + 1)
    /\ \E d \in Downstream :
         LET result == MakeRequest(d) IN
         /\ ~result.success
         /\ IsRetryableError(result.httpStatusCode)
         /\ lastError' = [lastError EXCEPT ![c] = ErrorOrUnknown(result.error)]
         /\ httpStatusCode' = [httpStatusCode EXCEPT ![c] = result.httpStatusCode]
         /\ ccTrace' = [ccTrace EXCEPT ![c] = @ \o << ResultEvent(result), AttemptEvent >>]
    /\ attempt' = [attempt EXCEPT ![c] = @ + 1]
    /\ retryCount' = [retryCount EXCEPT ![c] = @ + 1]
    /\ UNCHANGED << maxRetries, ccResult, ccPc >>
    /\ UNCHANGED nonClientVars

\* (variant in which retryCount is a field of the service, shared by the
\* calls, instead of a local of checkCredit)
AttemptFailsRetry_SharedRetryCount(c) ==
    /\ ccPc[c] = "inflight"
    /\ LoopContinues(attempt[c] + 1)
    /\ \E d \in Downstream :
         LET result == MakeRequest(d) IN
         /\ ~result.success
         /\ IsRetryableError(result.httpStatusCode)
         /\ lastError' = [lastError EXCEPT ![c] = ErrorOrUnknown(result.error)]
         /\ httpStatusCode' = [httpStatusCode EXCEPT ![c] = result.httpStatusCode]
         /\ ccTrace' = [ccTrace EXCEPT ![c] = @ \o << ResultEvent(result), SleepEvent >>]
    /\ attempt' = [attempt EXCEPT ![c] = @ + 1]
    /\ retryCount' = [o \in Calls |-> IF ccPc[o] \in {"inflight", "sleeping"}
                                      THEN retryCount[o] + 1 ELSE retryCount[o]]
    /\ ccPc' = [ccPc EXCEPT ![c] = "sleeping"]
    /\ UNCHANGED << maxRetries, ccResult >>
    /\ UNCHANGED nonClientVars

\* retryable failure with loop iterations left: next iteration starts,
\* retryCount++ and the backoff sleep begins
AttemptFailsRetry(c) ==
    /\ ccPc[c] = "inflight"
    /\ LoopContinues(attempt[c] + 1)
    /\ \E d \in Downstream :
         LET result == MakeRequest(d) IN
         /\ ~result.success
         /\ IsRetryableError(result.httpStatusCode)
         /\ lastError' = [lastError EXCEPT ![c] = ErrorOrUnknown(result.error)]
         /\ httpStatusCode' = [httpStatusCode EXCEPT ![c] = result.httpStatusCode]
         /\ ccTrace' = [ccTrace EXCEPT ![c] = @ \o << ResultEvent(result), SleepEvent >>]
    /\ attempt' = [attempt EXCEPT ![c] = @ + 1]
    /\ retryCount' = [retryCount EXCEPT ![c] = @ + 1]
    /\ ccPc' = [ccPc EXCEPT ![c] = "sleeping"]
    /\ UNCHANGED << maxRetries, ccResult >>
    /\ UNCHANGED nonClientVars

\* (variant that reports the status and error seen before the last attempt)
AttemptFailsExhausted_Stale(c) ==
    /\ ccPc[c] = "inflight"
    /\ ~LoopContinues(attempt[c] + 1)
    /\ \E d \in Downstream :
         LET result == MakeRequest(d) IN
         /\ ~result.success
         /\ IsRetryableError(result.httpStatusCode)
         /\ lastError' = [lastError EXCEPT ![c] = ErrorOrUnknown(result.error)]
         /\ httpStatusCode' = [httpStatusCode EXCEPT ![c] = result.httpStatusCode]
         /\ ccTrace' = [ccTrace EXCEPT ![c] = Append(@, ResultEvent(result))]
         /\ ccResult' = [ccResult EXCEPT ![c] =
                [success |-> FALSE, data |-> "<none>",
                 error |-> FailedAfterError(maxRetries, lastError[c]),
                 httpStatusCode |-> httpStatusCode[c],
                 retryCount |-> retryCount[c]]]
    /\ attempt' = [attempt EXCEPT ![c] = @ + 1]
    /\ ccPc' = [ccPc EXCEPT ![c] = "returned"]
    /\ UNCHANGED << maxRetries, retryCount >>
    /\ UNCHANGED nonClientVars

\* retryable failure on the last iteration: the loop ends and the
\* "Failed after ..." result is returned
AttemptFailsExhausted(c) ==
    /\ ccPc[c] = "inflight"
    /\ ~LoopContinues(attempt[c] + 1)
    /\ \E d \in Downstream :
         LET result == MakeRequest(d) IN
         /\ ~result.success
         /\ IsRetryableError(result.httpStatusCode)
         /\ lastError' = [lastError EXCEPT ![c] = ErrorOrUnknown(result.error)]
         /\ httpStatusCode' = [httpStatusCode EXCEPT ![c] = result.httpStatusCode]
         /\ ccTrace' = [ccTrace EXCEPT ![c] = Append(@, ResultEvent(result))]
         /\ ccResult' = [ccResult EXCEPT ![c] =
                [success |-> FALSE, data |-> "<none>",
                 error |-> FailedAfterError(maxRetries, ErrorOrUnknown(result.error)),
                 httpStatusCode |-> result.httpStatusCode,
                 retryCount |-> retryCount[c]]]
    /\ attempt' = [attempt EXCEPT ![c] = @ + 1]
    /\ ccPc' = [ccPc EXCEPT ![c] = "returned"]
    /\ UNCHANGED << maxRetries, retryCount >>
    /\ UNCHANGED nonClientVars

\* the backoff sleep resolves and the next attempt goes out
SleepEnds(c) ==
    /\ ccPc[c] = "sleeping"
    /\ ccPc' = [ccPc EXCEPT ![c] = "inflight"]
    /\ ccTrace' = [ccTrace EXCEPT ![c] = Append(@, AttemptEvent)]
    /\ UNCHANGED << maxRetries, attempt, retryCount, lastError, httpStatusCode, ccResult >>
    /\ UNCHANGED nonClientVars

ClientStep(c) ==
    \/ CheckCreditStart(c)
    \/ CheckCreditRejects(c)
    \/ AttemptSucceeds(c)
    \/ AttemptFailsPermanently(c)
    \/ AttemptFailsRetry(c)
    \/ AttemptFailsExhausted(c)
    \/ SleepEnds(c)

ClientNext == \E c \in Calls : ClientStep(c)

(***************************************************************************)
(* Backoff delay (BureauHttpClientService.calculateBackoffDelay)           *)
(* Math.random() is step / JitterSteps for a step in 0..JitterSteps-1;     *)
(* delays are in 1/DelayScale ms so that every value is an integer.        *)
(***************************************************************************)
DelayScale == 10 * JitterSteps

\* default of BUREAU_RETRY_DELAY_MS
DefaultRetryDelayMs == 1000

\* the cap of calculateBackoffDelay
MaxDelayMs == 30000

\* the BUREAU_RETRY_DELAY_MS values explored
BaseDelays == {100, 500, DefaultRetryDelayMs, 10000}

\* Math.pow(2, n)
RECURSIVE Pow2(_)
Pow2(n) == IF n <= 0 THEN 1 ELSE 2 * Pow2(n - 1)

\* Math.min
MathMin(a, b) == IF a <= b THEN a ELSE b

\* (variant whose jitter is spread around the exponential delay, from -30%
\* to +30%)
CalculateBackoffDelay_SymmetricJitter(attemptNo, baseDelay, step) ==
    LET exponentialDelay == baseDelay * Pow2(attemptNo - 1)
        jitter == (2 * step - JitterSteps) * 3 * exponentialDelay
    IN MathMin(DelayScale * exponentialDelay + jitter, DelayScale * MaxDelayMs)

\* calculateBackoffDelay: min(exponentialDelay + jitter, 30000) with
\* jitter = random * 0.3 * exponentialDelay
CalculateBackoffDelay(attemptNo, baseDelay, step) ==
    LET exponentialDelay == baseDelay * Pow2(attemptNo - 1)
        jitter == step * 3 * exponentialDelay
    IN MathMin(DelayScale * exponentialDelay + jitter, DelayScale * MaxDelayMs)

\* calculateBackoffDelay is not running
BackoffIdle ==
    /\ delayPc = "off"
    /\ delayBase = 0
    /\ delayAttempt = 0
    /\ delayValue = 0

\* one call of calculateBackoffDelay, for every value Math.random can take
CalculateBackoffDelayStep ==
    /\ delayPc = "called"
    /\ \E step \in 0..(JitterSteps - 1) :
         delayValue' = CalculateBackoffDelay(delayAttempt, delayBase, step)
    /\ delayPc' = "returned"
    /\ UNCHANGED << delayBase, delayAttempt >>
    /\ UNCHANGED nonDelayVars

BackoffNext == CalculateBackoffDelayStep

(***************************************************************************)
(* Row normalizer / parser (CsvParserService)                              *)
(* Cell values and descriptions are sequences of one-character strings.    *)
(***************************************************************************)
\* row[field] of a column the row does not have
Undefined == << "<undefined>" >>

\* the null returned by getFieldValue
Null == << "<null>" >>

DateFields == << "date", "Date", "DATE", "transaction_date", "TransactionDate" >>
DescriptionFields == << "description", "Description", "DESCRIPTION", "memo", "Memo",
                        "details", "Details" >>
AmountFields == << "amount", "Amount", "AMOUNT", "value", "Value" >>
BalanceFields == << "balance", "Balance", "BALANCE", "running_balance", "RunningBalance" >>

Range(f) == { f[i] : i \in DOMAIN f }

\* the header names a row can carry
ColumnNames == Range(DateFields) \cup Range(DescriptionFields)
               \cup Range(AmountFields) \cup Range(BalanceFields)

\* \s of the regular expressions and of trim()
IsSpace(ch) == ch \in {" ", "\t"}

\* String.prototype.trim
RECURSIVE TrimLeft(_)
TrimLeft(s) == IF s # << >> /\ IsSpace(Head(s)) THEN TrimLeft(Tail(s)) ELSE s

RECURSIVE TrimRight(_)
TrimRight(s) ==
    IF s # << >> /\ IsSpace(s[Len(s)]) THEN TrimRight(SubSeq(s, 1, Len(s) - 1)) ELSE s

Trim(s) == TrimRight(TrimLeft(s))

\* getFieldValue: the first alias whose cell is not undefined / null / ''
RECURSIVE GetFieldValueFrom(_, _, _)
GetFieldValueFrom(row, possibleFields, i) ==
    IF i > Len(possibleFields) THEN Null
    ELSE IF /\ row[possibleFields[i]] # Undefined
            /\ row[possibleFields[i]] # Null
            /\ row[possibleFields[i]] # << >>
         THEN Trim(row[possibleFields[i]])
         ELSE GetFieldValueFrom(row, possibleFields, i + 1)

GetFieldValue(row, possibleFields) == GetFieldValueFrom(row, possibleFields, 1)

\* JavaScript falsiness of a string | null
Falsy(str) == str = Null \/ str = << >>

\* incomeKeywords
IncomeKeywords ==
    << << "s", "a", "l", "a", "r", "y" >>,
       << "w", "a", "g", "e" >>,
       << "i", "n", "c", "o", "m", "e" >>,
       << "d", "i", "v", "i", "d", "e", "n", "d" >>,
       << "i", "n", "t", "e", "r", "e", "s", "t" >>,
       << "r", "e", "f", "u", "n", "d" >>,
       << "d", "e", "p", "o", "s", "i", "t" >>,
       << "c", "r", "e", "d", "i", "t", " ", "t", "r", "a", "n", "s", "f", "e", "r" >>,
       << "p", "a", "y", "m", "e", "n", "t", " ", "r", "e", "c", "e", "i", "v", "e", "d" >>,
       << "c", "a", "s", "h", "b", "a", "c", "k" >>,
       << "b", "o", "n", "u", "s" >>,
       << "c", "o", "m", "m", "i", "s", "s", "i", "o", "n" >> >>

\* categoryKeywords, in the order of the object literal
CategoryKeywords ==
    << [category |-> "groceries",
        keywords |-> << << "s", "u", "p", "e", "r", "m", "a", "r", "k", "e", "t" >>,
                     << "g", "r", "o", "c", "e", "r", "y" >>,
                     << "f", "o", "o", "d" >>,
                     << "m", "a", "r", "k", "e", "t" >>,
                     << "t", "e", "s", "c", "o" >>,
                     << "s", "a", "i", "n", "s", "b", "u", "r", "y" >>,
                     << "a", "s", "d", "a" >> >>],
       [category |-> "entertainment",
        keywords |-> << << "c", "i", "n", "e", "m", "a" >>,
                     << "m", "o", "v", "i", "e" >>,
                     << "n", "e", "t", "f", "l", "i", "x" >>,
                     << "s", "p", "o", "t", "i", "f", "y" >>,
                     << "e", "n", "t", "e", "r", "t", "a", "i", "n", "m", "e", "n", "t" >>,
                     << "g", "a", "m", "e" >>,
                     << "t", "h", "e", "a", "t", "r", "e" >> >>],
       [category |-> "transport",
        keywords |-> << << "u", "b", "e", "r" >>,
                     << "t", "a", "x", "i" >>,
                     << "b", "u", "s" >>,
                     << "t", "r", "a", "i", "n" >>,
                     << "f", "u", "e", "l" >>,
                     << "p", "e", "t", "r", "o", "l" >>,
                     << "p", "a", "r", "k", "i", "n", "g" >>,
                     << "t", "r", "a", "n", "s", "p", "o", "r", "t" >> >>],
       [category |-> "utilities",
        keywords |-> << << "e", "l", "e", "c", "t", "r", "i", "c" >>,
                     << "g", "a", "s" >>,
                     << "w", "a", "t", "e", "r" >>,
                     << "i", "n", "t", "e", "r", "n", "e", "t" >>,
                     << "p", "h", "o", "n", "e" >>,
                     << "u", "t", "i", "l", "i", "t", "y" >>,
                     << "c", "o", "u", "n", "c", "i", "l", " ", "t", "a", "x" >> >>],
       [category |-> "healthcare",
        keywords |-> << << "p", "h", "a", "r", "m", "a", "c", "y" >>,
                     << "d", "o", "c", "t", "o", "r" >>,
                     << "h", "o", "s", "p", "i", "t", "a", "l" >>,
                     << "h", "e", "a", "l", "t", "h" >>,
                     << "m", "e", "d", "i", "c", "a", "l" >>,
                     << "d", "e", "n", "t", "a", "l" >> >>],
       [category |-> "shopping",
        keywords |-> << << "a", "m", "a", "z", "o", "n" >>,
                     << "s", "h", "o", "p" >>,
                     << "s", "t", "o", "r", "e" >>,
                     << "r", "e", "t", "a", "i", "l" >>,
                     << "p", "u", "r", "c", "h", "a", "s", "e" >>,
                     << "o", "n", "l", "i", "n", "e" >> >>],
       [category |-> "dining",
        keywords |-> << << "r", "e", "s", "t", "a", "u", "r", "a", "n", "t" >>,
                     << "c", "a", "f", "e" >>,
                     << "t", "a", "k", "e", "a", "w", "a", "y" >>,
                     << "m", "c", "d", "o", "n", "a", "l", "d" >>,
                     << "k", "f", "c" >>,
                     << "d", "i", "n", "i", "n", "g" >>,
                     << "f", "o", "o", "d", " ", "d", "e", "l", "i", "v", "e", "r", "y" >> >>],
       [category |-> "education",
        keywords |-> << << "s", "c", "h", "o", "o", "l" >>,
                     << "u", "n", "i", "v", "e", "r", "s", "i", "t", "y" >>,
                     << "c", "o", "u", "r", "s", "e" >>,
                     << "e", "d", "u", "c", "a", "t", "i", "o", "n" >>,
                     << "t", "u", "i", "t", "i", "o", "n" >>,
                     << "b", "o", "o", "k", "s" >> >>],
       [category |-> "investment",
        keywords |-> << << "i", "n", "v", "e", "s", "t", "m", "e", "n", "t" >>,
                     << "s", "t", "o", "c", "k", "s" >>,
                     << "s", "h", "a", "r", "e", "s" >>,
                     << "t", "r", "a", "d", "i", "n", "g" >>,
                     << "c", "r", "y", "p", "t", "o" >>,
                     << "f", "u", "n", "d" >> >>],
       [category |-> "loan_payment",
        keywords |-> << << "l", "o", "a", "n" >>,
                     << "m", "o", "r", "t", "g", "a", "g", "e" >>,
                     << "c", "r", "e", "d", "i", "t", " ", "c", "a", "r", "d" >>,
                     << "r", "e", "p", "a", "y", "m", "e", "n", "t" >>,
                     << "i", "n", "s", "t", "a", "l", "l", "m", "e", "n", "t" >> >>],
       [category |-> "fees_charges",
        keywords |-> << << "f", "e", "e" >>,
                     << "c", "h", "a", "r", "g", "e" >>,
                     << "p", "e", "n", "a", "l", "t", "y" >>,
                     << "o", "v", "e", "r", "d", "r", "a", "f", "t" >>,
                     << "c", "o", "m", "m", "i", "s", "s", "i", "o", "n" >>,
                     << "s", "e", "r", "v", "i", "c", "e", " ", "c", "h", "a", "r", "g", "e" >> >>] >>

\* String.prototype.toLowerCase on the letters of the input alphabet
UpperToLower ==
    ("A" :> "a") @@ ("B" :> "b") @@ ("C" :> "c") @@ ("D" :> "d") @@ ("E" :> "e") @@ ("F" :> "f") @@ ("G" :> "g") @@ ("H" :> "h") @@ ("I" :> "i") @@ ("J" :> "j") @@ ("K" :> "k") @@ ("L" :> "l") @@ ("M" :> "m") @@
    ("N" :> "n") @@ ("O" :> "o") @@ ("P" :> "p") @@ ("Q" :> "q") @@ ("R" :> "r") @@ ("S" :> "s") @@ ("T" :> "t") @@ ("U" :> "u") @@ ("V" :> "v") @@ ("W" :> "w") @@ ("X" :> "x") @@ ("Y" :> "y") @@ ("Z" :> "z")

ToLowerCase(s) ==
    [i \in 1..Len(s) |-> IF s[i] \in DOMAIN UpperToLower THEN UpperToLower[s[i]] ELSE s[i]]

\* String.prototype.includes
Includes(s, k) ==
    \E i \in 0..(Len(s) - Len(k)) : SubSeq(s, i + 1, i + Len(k)) = k

\* categorizeTransaction: first keyword, in table order, contained in the
\* lower-cased description; confidence in hundredths
\* (variant that prefers a keyword equal to the whole description)
CategorizeTransaction_BestMatch(description) ==
    LET lowerDescription == ToLowerCase(description)
        entries == UNION { { << i, j >> : j \in 1..Len(CategoryKeywords[i].keywords) } :
                           i \in 1..Len(CategoryKeywords) }
        hits == { p \in entries :
                    Includes(lowerDescription,
                             ToLowerCase(CategoryKeywords[p[1]].keywords[p[2]])) }
        exact == { p \in hits :
                    lowerDescription = ToLowerCase(CategoryKeywords[p[1]].keywords[p[2]]) }
        pool == IF exact # {} THEN exact ELSE hits
    IN IF hits = {}
       THEN [category |-> "other", confidence |-> 10]
       ELSE LET first == CHOOSE p \in pool :
                            \A q \in pool : p[1] < q[1] \/ (p[1] = q[1] /\ p[2] <= q[2])
                keyword == ToLowerCase(CategoryKeywords[first[1]].keywords[first[2]])
            IN [category |-> CategoryKeywords[first[1]].category,
                confidence |-> IF lowerDescription = keyword THEN 100 ELSE 80]

CategorizeTransaction(description) ==
    LET lowerDescription == ToLowerCase(description)
        entries == UNION { { << i, j >> : j \in 1..Len(CategoryKeywords[i].keywords) } :
                           i \in 1..Len(CategoryKeywords) }
        hits == { p \in entries :
                    Includes(lowerDescription,
                             ToLowerCase(CategoryKeywords[p[1]].keywords[p[2]])) }
    IN IF hits = {}
       THEN [category |-> "other", confidence |-> 10]
       ELSE LET first == CHOOSE p \in hits :
                            \A q \in hits : p[1] < q[1] \/ (p[1] = q[1] /\ p[2] <= q[2])
                keyword == ToLowerCase(CategoryKeywords[first[1]].keywords[first[2]])
            IN [category |-> CategoryKeywords[first[1]].category,
                confidence |-> IF lowerDescription = keyword THEN 100 ELSE 80]

\* isIncomeTransaction
IsIncomeTransaction(description) ==
    \E i \in 1..Len(IncomeKeywords) :
        Includes(ToLowerCase(description), ToLowerCase(IncomeKeywords[i]))

\* the date strings of the inputs that new Date() accepts, as days since
\* 1970-01-01; every other date string of the inputs gives an Invalid Date
ValidDates ==
    << [text |-> << "2", "0", "2", "5", "-", "0", "1", "-", "0", "1" >>, day |-> 20089],
       [text |-> << "2", "0", "2", "5", "-", "0", "1", "-", "0", "2" >>, day |-> 20090],
       [text |-> << "2", "0", "2", "5", "-", "0", "2", "-", "1", "5" >>, day |-> 20134] >>

InvalidDate == [valid |-> FALSE, day |-> 0]

\* new Date(dateStr)
NewDate(dateStr) ==
    IF \E i \in 1..Len(ValidDates) : ValidDates[i].text = dateStr
    THEN [valid |-> TRUE,
          day |-> ValidDates[CHOOSE i \in 1..Len(ValidDates) : ValidDates[i].text = dateStr].day]
    ELSE InvalidDate

DigitValue ==
    ("0" :> 0) @@ ("1" :> 1) @@ ("2" :> 2) @@ ("3" :> 3) @@ ("4" :> 4) @@
    ("5" :> 5) @@ ("6" :> 6) @@ ("7" :> 7) @@ ("8" :> 8) @@ ("9" :> 9)

IsDigit(ch) == ch \in DOMAIN DigitValue

\* length of the longest prefix of s made of digits
RECURSIVE DigitPrefixLen(_)
DigitPrefixLen(s) ==
    IF s # << >> /\ IsDigit(Head(s)) THEN 1 + DigitPrefixLen(Tail(s)) ELSE 0

\* value of a sequence of digits
RECURSIVE DigitsValue(_)
DigitsValue(s) ==
    IF s = << >> THEN 0
    ELSE 10 * DigitsValue(SubSeq(s, 1, Len(s) - 1)) + DigitValue[s[Len(s)]]

NaN == [nan |-> TRUE, cents |-> 0]

\* parseFloat, in hundredths: optional sign, digits, optional fraction; the
\* text after the longest numeric prefix is ignored; NaN without any digit.
\* The inputs carry at most two fraction digits.
ParseFloat(str) ==
    LET s0 == TrimLeft(str)
        signed == s0 # << >> /\ Head(s0) \in {"-", "+"}
        negative == signed /\ Head(s0) = "-"
        s1 == IF signed THEN Tail(s0) ELSE s0
        intLen == DigitPrefixLen(s1)
        s2 == SubSeq(s1, intLen + 1, Len(s1))
        hasPoint == s2 # << >> /\ Head(s2) = "."
        s3 == IF hasPoint THEN Tail(s2) ELSE << >>
        fracLen == DigitPrefixLen(s3)
        frac == SubSeq(s3, 1, fracLen)
        fracCents == IF fracLen = 0 THEN 0
                     ELSE IF fracLen = 1 THEN 10 * DigitsValue(frac)
                     ELSE DigitsValue(SubSeq(frac, 1, 2))
        magnitude == 100 * DigitsValue(SubSeq(s1, 1, intLen)) + fracCents
    IN IF intLen = 0 /\ fracLen = 0 THEN NaN
       ELSE [nan |-> FALSE, cents |-> IF negative THEN 0 - magnitude ELSE magnitude]

\* str.replace(/[£$€,\s]/g, '')
CleanNumber(str) ==
    SelectSeq(str, LAMBDA ch : ~(ch \in {"£", "$", "€", ","} \/ IsSpace(ch)))

Abs(n) == IF n < 0 THEN 0 - n ELSE n

NoTransaction ==
    [date |-> 0, description |-> << >>, amount |-> 0, balance |-> 0, type |-> "<none>",
     category |-> "<none>", isIncome |-> FALSE, categoryConfidence |-> 0,
     rawData |-> << >>]

NoMessage == [prefix |-> "", arg |-> << >>]

\* the balance cell: 0 when absent, empty or not numeric
ParseBalance(balanceStr) ==
    IF Falsy(balanceStr) THEN 0
    ELSE IF ParseFloat(CleanNumber(balanceStr)).nan THEN 0
    ELSE ParseFloat(CleanNumber(balanceStr)).cents

\* (variant that does not require the amount cell)
ParseRow_AmountNotRequired(row, rowNumber) ==
    LET dateStr == GetFieldValue(row, DateFields)
        description == GetFieldValue(row, DescriptionFields)
        amountStr == GetFieldValue(row, AmountFields)
        balanceStr == GetFieldValue(row, BalanceFields)
    IN IF Falsy(dateStr) \/ Falsy(description)
       THEN [kind |-> "null", tx |-> NoTransaction, error |-> NoMessage]
       ELSE IF ~NewDate(dateStr).valid
       THEN [kind |-> "throw", tx |-> NoTransaction,
             error |-> [prefix |-> "Invalid date format", arg |-> dateStr]]
       ELSE IF ParseFloat(CleanNumber(amountStr)).nan
       THEN [kind |-> "throw", tx |-> NoTransaction,
             error |-> [prefix |-> "Invalid amount format", arg |-> amountStr]]
       ELSE LET amount == ParseFloat(CleanNumber(amountStr)).cents
                type == IF amount >= 0 THEN "credit" ELSE "debit"
                categoryResult == CategorizeTransaction(description)
            IN [kind |-> "ok",
                tx |-> [date |-> NewDate(dateStr).day,
                        description |-> Trim(description),
                        amount |-> Abs(amount),
                        balance |-> ParseBalance(balanceStr),
                        type |-> type,
                        category |-> categoryResult.category,
                        isIncome |-> type = "credit" /\ IsIncomeTransaction(description),
                        categoryConfidence |-> categoryResult.confidence,
                        rawData |-> row],
                error |-> NoMessage]

\* (variant that takes a zero amount for a debit)
ParseRow_ZeroIsDebit(row, rowNumber) ==
    LET dateStr == GetFieldValue(row, DateFields)
        description == GetFieldValue(row, DescriptionFields)
        amountStr == GetFieldValue(row, AmountFields)
        balanceStr == GetFieldValue(row, BalanceFields)
    IN IF Falsy(dateStr) \/ Falsy(description) \/ Falsy(amountStr)
       THEN [kind |-> "null", tx |-> NoTransaction, error |-> NoMessage]
       ELSE IF ~NewDate(dateStr).valid
       THEN [kind |-> "throw", tx |-> NoTransaction,
             error |-> [prefix |-> "Invalid date format", arg |-> dateStr]]
       ELSE IF ParseFloat(CleanNumber(amountStr)).nan
       THEN [kind |-> "throw", tx |-> NoTransaction,
             error |-> [prefix |-> "Invalid amount format", arg |-> amountStr]]
       ELSE LET amount == ParseFloat(CleanNumber(amountStr)).cents
                type == IF amount > 0 THEN "credit" ELSE "debit"
                categoryResult == CategorizeTransaction(description)
            IN [kind |-> "ok",
                tx |-> [date |-> NewDate(dateStr).day,
                        description |-> Trim(description),
                        amount |-> Abs(amount),
                        balance |-> ParseBalance(balanceStr),
                        type |-> type,
                        category |-> categoryResult.category,
                        isIncome |-> type = "credit" /\ IsIncomeTransaction(description),
                        categoryConfidence |-> categoryResult.confidence,
                        rawData |-> row],
                error |-> NoMessage]

\* parseRow: "null" (row skipped), "throw" (with the Error's message) or
\* "ok" (with the ParsedTransaction)
ParseRow(row, rowNumber) ==
    LET dateStr == GetFieldValue(row, DateFields)
        description == GetFieldValue(row, DescriptionFields)
        amountStr == GetFieldValue(row, AmountFields)
        balanceStr == GetFieldValue(row, BalanceFields)
    IN IF Falsy(dateStr) \/ Falsy(description) \/ Falsy(amountStr)
       THEN [kind |-> "null", tx |-> NoTransaction, error |-> NoMessage]
       ELSE IF ~NewDate(dateStr).valid
       THEN [kind |-> "throw", tx |-> NoTransaction,
             error |-> [prefix |-> "Invalid date format", arg |-> dateStr]]
       ELSE IF ParseFloat(CleanNumber(amountStr)).nan
       THEN [kind |-> "throw", tx |-> NoTransaction,
             error |-> [prefix |-> "Invalid amount format", arg |-> amountStr]]
       ELSE LET amount == ParseFloat(CleanNumber(amountStr)).cents
                type == IF amount >= 0 THEN "credit" ELSE "debit"
                categoryResult == CategorizeTransaction(description)
            IN [kind |-> "ok",
                tx |-> [date |-> NewDate(dateStr).day,
                        description |-> Trim(description),
                        amount |-> Abs(amount),
                        balance |-> ParseBalance(balanceStr),
                        type |-> type,
                        category |-> categoryResult.category,
                        isIncome |-> type = "credit" /\ IsIncomeTransaction(description),
                        categoryConfidence |-> categoryResult.confidence,
                        rawData |-> row],
                error |-> NoMessage]

\* a row without any of its columns
EmptyRow == [f \in ColumnNames |-> Undefined]

\* The rows the input buffers of the model are made of. They come from one
\* file, so they share its header: Date, Description, Amount, Balance.
\* a credit
SalaryRow ==
    [EmptyRow EXCEPT
        !["Date"] = << "2", "0", "2", "5", "-", "0", "1", "-", "0", "1" >>,
        !["Description"] = << "S", "a", "l", "a", "r", "y", " ", "P", "a", "y", "m", "e", "n", "t" >>,
        !["Amount"] = << "5", "0", "0", "0", ".", "0", "0" >>,
        !["Balance"] = << "5", "0", "0", "0", ".", "0", "0" >>]

\* a debit with an empty balance cell
GroceryRow ==
    [EmptyRow EXCEPT
        !["Date"] = << "2", "0", "2", "5", "-", "0", "1", "-", "0", "2" >>,
        !["Description"] = << "G", "r", "o", "c", "e", "r", "y", " ", "S", "t", "o", "r", "e" >>,
        !["Amount"] = << "-", "1", "2", "0", ".", "5", "0" >>,
        !["Balance"] = << >>]

\* a fee with currency symbol, thousands separator and negative balance
OverdraftRow ==
    [EmptyRow EXCEPT
        !["Date"] = << "2", "0", "2", "5", "-", "0", "2", "-", "1", "5" >>,
        !["Description"] = << " ", "O", "v", "e", "r", "d", "r", "a", "f", "t", " ", "f", "e", "e", " " >>,
        !["Amount"] = << "-", "£", "1", ",", "0", "2", "5", ".", "5" >>,
        !["Balance"] = << "-", "2", "5", ".", "5", "0" >>]

\* a row whose date cell is empty: parseRow returns null
MissingDateRow ==
    [EmptyRow EXCEPT
        !["Date"] = << >>,
        !["Description"] = << "G", "r", "o", "c", "e", "r", "y", " ", "S", "t", "o", "r", "e" >>,
        !["Amount"] = << "-", "1", "2", "0", ".", "5", "0" >>,
        !["Balance"] = << "1", "0", ".", "0", "0" >>]

\* a row whose date does not parse: parseRow throws
InvalidDateRow ==
    [EmptyRow EXCEPT
        !["Date"] = << "i", "n", "v", "a", "l", "i", "d", "-", "d", "a", "t", "e" >>,
        !["Description"] = << "S", "a", "l", "a", "r", "y", " ", "P", "a", "y", "m", "e", "n", "t" >>,
        !["Amount"] = << "5", "0", "0", "0", ".", "0", "0" >>,
        !["Balance"] = << "5", "0", "0", "0", ".", "0", "0" >>]

\* a row whose amount does not parse: parseRow throws
InvalidAmountRow ==
    [EmptyRow EXCEPT
        !["Date"] = << "2", "0", "2", "5", "-", "0", "1", "-", "0", "1" >>,
        !["Description"] = << "G", "r", "o", "c", "e", "r", "y", " ", "S", "t", "o", "r", "e" >>,
        !["Amount"] = << "a", "b", "c" >>,
        !["Balance"] = << "5", "0", "0", "0", ".", "0", "0" >>]

\* a small credit
RentRow ==
    [EmptyRow EXCEPT
        !["Date"] = << "2", "0", "2", "5", "-", "0", "2", "-", "1", "5" >>,
        !["Description"] = << "R", "e", "n", "t" >>,
        !["Amount"] = << "-", "1", "5", "0", ".", "0", "0" >>,
        !["Balance"] = << "-", "2", "0", ".", "0", "0" >>]

CardFeeRow ==
    [EmptyRow EXCEPT
        !["Date"] = << "2", "0", "2", "5", "-", "0", "2", "-", "1", "5" >>,
        !["Description"] = << "C", "a", "r", "d", " ", "f", "e", "e" >>,
        !["Amount"] = << "-", "3", "5", ".", "0", "0" >>,
        !["Balance"] = << "3", "0", "0", ".", "0", "0" >>]

ZeroAmountRow ==
    [EmptyRow EXCEPT
        !["Date"] = << "2", "0", "2", "5", "-", "0", "1", "-", "0", "2" >>,
        !["Description"] = << "A", "d", "j", "u", "s", "t", "m", "e", "n", "t" >>,
        !["Amount"] = << "0", ".", "0", "0" >>,
        !["Balance"] = << "1", "0", ".", "0", "0" >>]

RefundRow ==
    [EmptyRow EXCEPT
        !["Date"] = << "2", "0", "2", "5", "-", "0", "1", "-", "0", "2" >>,
        !["Description"] = << "R", "e", "f", "u", "n", "d" >>,
        !["Amount"] = << "2", "0", ".", "2", "5" >>,
        !["Balance"] = << "4", "8", "9", "9", ".", "7", "5" >>]

\* a small fee on an overdrawn account
BankFeeRow ==
    [EmptyRow EXCEPT
        !["Date"] = << "2", "0", "2", "5", "-", "0", "2", "-", "1", "5" >>,
        !["Description"] = << "B", "a", "n", "k", " ", "f", "e", "e" >>,
        !["Amount"] = << "-", "3", "5", ".", "0", "0" >>,
        !["Balance"] = << "-", "6", "0", ".", "5", "0" >>]

SampleRows == { SalaryRow, GroceryRow, OverdraftRow, MissingDateRow,
                InvalidDateRow, InvalidAmountRow, ZeroAmountRow }

\* a row with every alias of one field replaced by one value
WithField(row, fields, v) ==
    [f \in ColumnNames |-> IF f \in Range(fields) THEN v ELSE row[f]]

\* rows in which the date, the description or the amount is absent, null or
\* the empty string, the other cells being valid or not
UnresolvableRows ==
    { WithField(base, fields, v) :
        base \in {SalaryRow, InvalidDateRow, InvalidAmountRow},
        fields \in {DateFields, DescriptionFields, AmountFields},
        v \in {Undefined, Null, << >>} }

\* the rows of the uploaded files: a credit, a debit and a skipped row
UploadRows == { SalaryRow, OverdraftRow, MissingDateRow }

(***************************************************************************)
(* Analytics engine (InsightsComputationService)                           *)
(* Money is in hundredths; binary floating-point error is not modelled.    *)
(***************************************************************************)
RECURSIVE Sum(_)
Sum(numbers) == IF numbers = << >> THEN 0 ELSE Head(numbers) + Sum(Tail(numbers))

\* transactions.reduce((sum, t) => +sum + +t.amount, 0)
SumOfAmounts(s) == Sum([i \in 1..Len(s) |-> s[i].amount])

\* balances.reduce((sum, b) => +sum + +b, 0)
SumOfBalances(s) == Sum([i \in 1..Len(s) |-> s[i].balance])

IsCredit(t) == t.type = "credit"
IsDebit(t) == t.type = "debit"
IsFee(t) == t.category = "fees_charges"

Min(S) == CHOOSE x \in S : \A y \in S : x <= y
Max(S) == CHOOSE x \in S : \A y \in S : x >= y

\* Math.round(a / b) for b > 0: the nearest integer, halves upwards
RoundDiv(a, b) == (2 * a + b) \div (2 * b)

\* computeIncomeAnalysis
ComputeIncomeAnalysis(txs) ==
    LET incomeTransactions == SelectSeq(txs, IsCredit)
        totalIncome == SumOfAmounts(incomeTransactions)
        days == Max({ txs[i].date : i \in DOMAIN txs })
                - Min({ txs[i].date : i \in DOMAIN txs })
    IN [avgMonthlyIncome |-> IF days > 30 THEN RoundDiv(totalIncome * 30, days)
                             ELSE totalIncome,
        totalIncome |-> totalIncome,
        incomeTransactionCount |-> Len(incomeTransactions)]

\* (variant that reports the size of the net flow without its sign)
ComputeCashFlowAnalysis_UnsignedNet(txs) ==
    LET totalInflow == SumOfAmounts(SelectSeq(txs, IsCredit))
        totalOutflow == SumOfAmounts(SelectSeq(txs, IsDebit))
    IN [totalInflow |-> totalInflow,
        totalOutflow |-> totalOutflow,
        netCashFlow |-> Abs(totalInflow - totalOutflow)]

\* computeCashFlowAnalysis
ComputeCashFlowAnalysis(txs) ==
    LET totalInflow == SumOfAmounts(SelectSeq(txs, IsCredit))
        totalOutflow == SumOfAmounts(SelectSeq(txs, IsDebit))
    IN [totalInflow |-> totalInflow,
        totalOutflow |-> totalOutflow,
        netCashFlow |-> totalInflow - totalOutflow]

NamedBuckets == {"groceries", "entertainment", "transport", "utilities",
                 "healthcare", "shopping", "dining"}

\* (variant that does not filter the debits)
BucketSpend_CreditsIncluded(txs, bucket) ==
    SumOfAmounts(SelectSeq(txs,
                           LAMBDA t : IF bucket = "other"
                                      THEN t.category \notin NamedBuckets
                                      ELSE t.category = bucket))

\* the sum the switch of computeSpendingBuckets adds to one bucket
BucketSpend(txs, bucket) ==
    SumOfAmounts(SelectSeq(txs,
                           LAMBDA t : /\ IsDebit(t)
                                      /\ IF bucket = "other"
                                         THEN t.category \notin NamedBuckets
                                         ELSE t.category = bucket))

\* computeSpendingBuckets
ComputeSpendingBuckets(txs) ==
    [groceriesSpend |-> BucketSpend(txs, "groceries"),
     entertainmentSpend |-> BucketSpend(txs, "entertainment"),
     transportSpend |-> BucketSpend(txs, "transport"),
     utilitiesSpend |-> BucketSpend(txs, "utilities"),
     healthcareSpend |-> BucketSpend(txs, "healthcare"),
     shoppingSpend |-> BucketSpend(txs, "shopping"),
     diningSpend |-> BucketSpend(txs, "dining"),
     otherSpend |-> BucketSpend(txs, "other")]

\* the bounced-payment scan over adjacent pairs
\* (variant that accepts a fee anywhere later in the list)
BouncedPaymentCount_AnyLaterFee(txs) ==
    Cardinality({ i \in 1..(Len(txs) - 1) :
                    /\ txs[i].type = "debit"
                    /\ txs[i].amount > 10000
                    /\ txs[i].balance < 0
                    /\ \E j \in (i + 1)..Len(txs) : txs[j].category = "fees_charges" })

BouncedPaymentCount(txs) ==
    Cardinality({ i \in 1..(Len(txs) - 1) :
                    /\ txs[i].type = "debit"
                    /\ txs[i].amount > 10000
                    /\ txs[i].balance < 0
                    /\ txs[i + 1].category = "fees_charges" })

Flag(text, n) == [text |-> text, n |-> n]

\* (variant that tests the MEDIUM tier before the HIGH tier)
ComputeRiskAnalysis_MediumFirst(txs) ==
    LET n == Len(txs)
        balances == [i \in 1..n |-> txs[i].balance]
        balanceSum == SumOfBalances(txs)
        overdraftCount == Cardinality({ i \in 1..n : balances[i] < 0 })
        bouncedPaymentCount == BouncedPaymentCount(txs)
        totalFees == SumOfAmounts(SelectSeq(txs, IsFee))
        debits == SelectSeq(txs, IsDebit)
        debitSum == SumOfAmounts(debits)
        largeTransactions ==
            Cardinality({ i \in 1..Len(debits) : debits[i].amount * Len(debits) > debitSum * 3 })
        riskFlags ==
            (IF overdraftCount > 0
             THEN << Flag("overdraft incidents detected", overdraftCount) >> ELSE << >>)
            \o (IF bouncedPaymentCount > 0
                THEN << Flag("potential bounced payments", bouncedPaymentCount) >> ELSE << >>)
            \o (IF totalFees > 10000
                THEN << Flag("High fees charged", totalFees) >> ELSE << >>)
            \o (IF balanceSum < 10000 * n
                THEN << Flag("Low average daily balance", -1) >> ELSE << >>)
            \o (IF Len(debits) > 0 /\ largeTransactions * 10 > Len(debits)
                THEN << Flag("Volatile spending patterns detected", -1) >> ELSE << >>)
        riskLevel ==
            IF \/ overdraftCount > 2
               \/ bouncedPaymentCount > 0
               \/ balanceSum < 20000 * n
               \/ totalFees > 5000
            THEN "medium"
            ELSE IF overdraftCount > 5 \/ bouncedPaymentCount > 2 \/ balanceSum < 5000 * n
            THEN "high"
            ELSE "low"
    IN [overdraftCount |-> overdraftCount,
        bouncedPaymentCount |-> bouncedPaymentCount,
        avgDailyBalance |-> RoundDiv(balanceSum, n),
        minBalance |-> Min(Range(balances)),
        maxBalance |-> Max(Range(balances)),
        riskLevel |-> riskLevel,
        riskFlags |-> riskFlags]

\* computeRiskAnalysis
ComputeRiskAnalysis(txs) ==
    LET n == Len(txs)
        balances == [i \in 1..n |-> txs[i].balance]
        balanceSum == SumOfBalances(txs)
        overdraftCount == Cardinality({ i \in 1..n : balances[i] < 0 })
        bouncedPaymentCount == BouncedPaymentCount(txs)
        totalFees == SumOfAmounts(SelectSeq(txs, IsFee))
        debits == SelectSeq(txs, IsDebit)
        debitSum == SumOfAmounts(debits)
        largeTransactions ==
            Cardinality({ i \in 1..Len(debits) : debits[i].amount * Len(debits) > debitSum * 3 })
        riskFlags ==
            (IF overdraftCount > 0
             THEN << Flag("overdraft incidents detected", overdraftCount) >> ELSE << >>)
            \o (IF bouncedPaymentCount > 0
                THEN << Flag("potential bounced payments", bouncedPaymentCount) >> ELSE << >>)
            \o (IF totalFees > 10000
                THEN << Flag("High fees charged", totalFees) >> ELSE << >>)
            \o (IF balanceSum < 10000 * n
                THEN << Flag("Low average daily balance", -1) >> ELSE << >>)
            \o (IF Len(debits) > 0 /\ largeTransactions * 10 > Len(debits)
                THEN << Flag("Volatile spending patterns detected", -1) >> ELSE << >>)
        riskLevel ==
            IF overdraftCount > 5 \/ bouncedPaymentCount > 2 \/ balanceSum < 5000 * n
            THEN "high"
            ELSE IF \/ overdraftCount > 2
                    \/ bouncedPaymentCount > 0
                    \/ balanceSum < 20000 * n
                    \/ totalFees > 5000
            THEN "medium"
            ELSE "low"
    IN [overdraftCount |-> overdraftCount,
        bouncedPaymentCount |-> bouncedPaymentCount,
        avgDailyBalance |-> RoundDiv(balanceSum, n),
        minBalance |-> Min(Range(balances)),
        maxBalance |-> Max(Range(balances)),
        riskLevel |-> riskLevel,
        riskFlags |-> riskFlags]

\* computeParsingStats; the rate is in ten-thousandths
ComputeParsingStats(txs) ==
    [parsingSuccessRate |-> IF Len(txs) > 0
                            THEN RoundDiv(Len(txs) * 10000, Len(txs))
                            ELSE 0,
     totalTransactions |-> Len(txs),
     successfulTransactions |-> Len(txs),
     failedTransactions |-> 0]

\* the ComputedInsights built from a non-empty transaction list (the five
\* analyses, kept as five sub-records)
BuildInsights(txs) ==
    [income |-> ComputeIncomeAnalysis(txs),
     cashFlow |-> ComputeCashFlowAnalysis(txs),
     buckets |-> ComputeSpendingBuckets(txs),
     risk |-> ComputeRiskAnalysis(txs),
     parsing |-> ComputeParsingStats(txs)]

\* what a ComputedInsights of all zeroes would be
ZeroInsights ==
    [income |-> [avgMonthlyIncome |-> 0, totalIncome |-> 0, incomeTransactionCount |-> 0],
     cashFlow |-> [totalInflow |-> 0, totalOutflow |-> 0, netCashFlow |-> 0],
     buckets |-> [groceriesSpend |-> 0, entertainmentSpend |-> 0, transportSpend |-> 0,
                  utilitiesSpend |-> 0, healthcareSpend |-> 0, shoppingSpend |-> 0,
                  diningSpend |-> 0, otherSpend |-> 0],
     risk |-> [overdraftCount |-> 0, bouncedPaymentCount |-> 0, avgDailyBalance |-> 0,
               minBalance |-> 0, maxBalance |-> 0, riskLevel |-> "low", riskFlags |-> << >>],
     parsing |-> [parsingSuccessRate |-> 0, totalTransactions |-> 0,
                  successfulTransactions |-> 0, failedTransactions |-> 0]]

\* placeholder where no ComputedInsights exists
NoInsights == [ZeroInsights EXCEPT !.risk.riskLevel = "<none>"]

\* (variant that answers an empty list with zeroes instead of throwing)
ComputeInsights_ZeroOnEmpty(txs) ==
    IF txs = << >>
    THEN [kind |-> "ok", insights |-> ZeroInsights, error |-> ""]
    ELSE [kind |-> "ok", insights |-> BuildInsights(txs), error |-> ""]

\* computeInsights on the transactions read for the statement: throws on an
\* empty list, otherwise returns the five analyses spread into one record
ComputeInsights(txs) ==
    IF txs = << >>
    THEN [kind |-> "throw", insights |-> NoInsights,
          error |-> "No transactions found for statement"]
    ELSE [kind |-> "ok", insights |-> BuildInsights(txs), error |-> ""]

\* the transactions rows the stand-alone computations read: the rows that
\* the parser makes of the well-formed sample rows
SampleTransactions ==
    { ParseRow(row, 1).tx : row \in {SalaryRow, GroceryRow, OverdraftRow, RefundRow, BankFeeRow} }

\* the transactions the risk analysis is explored with: a credit with a
\* high balance, a debit over 100 with no balance, a debit over 100 that
\* leaves the account overdrawn, a fee with a positive balance and a fee
\* under 100 with a negative balance
RiskTransactions ==
    { ParseRow(row, 1).tx : row \in {SalaryRow, GroceryRow, RentRow, CardFeeRow, BankFeeRow} }

\* a row of one day with a description and an amount
BucketRow(description, amount) ==
    [EmptyRow EXCEPT
        !["Date"] = << "2", "0", "2", "5", "-", "0", "1", "-", "0", "2" >>,
        !["Description"] = description,
        !["Amount"] = amount]

\* the transactions the spending buckets are explored with: a debit of each
\* named category, a debit of two other categories and a credit of a named
\* category
BucketTransactions ==
    { ParseRow(row, 1).tx : row \in
        { BucketRow(<< "T", "e", "s", "c", "o" >>, << "-", "1", "0", ".", "0", "0" >>),
          BucketRow(<< "N", "e", "t", "f", "l", "i", "x" >>, << "-", "2", "0", ".", "0", "0" >>),
          BucketRow(<< "U", "b", "e", "r" >>, << "-", "3", "0", ".", "0", "0" >>),
          BucketRow(<< "E", "l", "e", "c", "t", "r", "i", "c" >>, << "-", "4", "0", ".", "0", "0" >>),
          BucketRow(<< "P", "h", "a", "r", "m", "a", "c", "y" >>, << "-", "5", "0", ".", "0", "0" >>),
          BucketRow(<< "A", "m", "a", "z", "o", "n" >>, << "-", "6", "0", ".", "0", "0" >>),
          BucketRow(<< "C", "a", "f", "e" >>, << "-", "7", "0", ".", "0", "0" >>),
          BucketRow(<< "R", "e", "n", "t" >>, << "-", "8", "0", ".", "0", "0" >>),
          BucketRow(<< "B", "a", "n", "k", " ", "f", "e", "e" >>, << "-", "3", "5", ".", "0", "0" >>),
          BucketRow(<< "T", "e", "s", "c", "o" >>, << "1", "5", ".", "5", "0" >>) } }

\* rows whose descriptions match no keyword, one keyword in part, one
\* keyword in full, and keywords of several categories
DescriptionRows ==
    { SalaryRow, GroceryRow,
      BucketRow(<< "T", "E", "S", "C", "O" >>, << "-", "1", "0", ".", "0", "0" >>),
      BucketRow(<< "F", "o", "o", "d", " ", "d", "e", "l", "i", "v", "e", "r", "y" >>, << "-", "2", "0", ".", "0", "0" >>),
      BucketRow(<< "O", "n", "l", "i", "n", "e", " ", "s", "t", "o", "r", "e" >>, << "-", "3", "0", ".", "0", "0" >>),
      BucketRow(<< "R", "e", "n", "t" >>, << "-", "8", "0", ".", "0", "0" >>) }

\* computeInsights is not running
ComputeIdle ==
    /\ computePc = "off"
    /\ computeInput = << >>
    /\ computeOutput = NoInsights

\* computeInsights from the result of find to its return or throw
ComputeInsightsStep ==
    /\ computePc = "called"
    /\ LET computed == ComputeInsights(computeInput)
       IN /\ computePc' = IF computed.kind = "throw" THEN "threw" ELSE "returned"
          /\ computeOutput' = computed.insights
    /\ UNCHANGED computeInput
    /\ UNCHANGED nonComputeVars

ComputeNext == ComputeInsightsStep

(***************************************************************************)
(* The row-by-row ingestion pass: the 'data' handler shared by             *)
(* CsvParserService.parseCSV and                                           *)
(* StatementsService.processStatementFromBuffer                            *)
(***************************************************************************)
\* `Row ${totalRows}: ${message}`
RowError(n, message) == [row |-> n, message |-> message]

InvalidDataFormat == [prefix |-> "Invalid data format", arg |-> << >>]

\* all sequences over S of length at most n
BoundedSeq(S, n) == UNION { [1..k -> S] : k \in 0..n }

\* what the handler collects: parseCSV the transaction itself,
\* processStatementFromBuffer { ...transaction, statementId }
Collected(t, statementId) ==
    IF statementId = ""
    THEN t
    ELSE [date |-> t.date, description |-> t.description, amount |-> t.amount,
          balance |-> t.balance, type |-> t.type, category |-> t.category,
          isIncome |-> t.isIncome, categoryConfidence |-> t.categoryConfidence,
          rawData |-> t.rawData, statementId |-> statementId]

\* (variant that does not count a skipped row as failed)
DataHandler_SkipUncounted(statementId) ==
    /\ totalRows < Len(fileRows)
    /\ LET n == totalRows + 1
           parsed == ParseRow(fileRows[n], n)
       IN /\ totalRows' = n
          /\ IF parsed.kind = "ok"
             THEN /\ transactions' = Append(transactions, Collected(parsed.tx, statementId))
                  /\ successfulRows' = successfulRows + 1
                  /\ UNCHANGED << failedRows, errors >>
             ELSE IF parsed.kind = "null"
             THEN /\ errors' = Append(errors, RowError(n, InvalidDataFormat))
                  /\ UNCHANGED << transactions, successfulRows, failedRows >>
             ELSE /\ failedRows' = failedRows + 1
                  /\ errors' = Append(errors, RowError(n, parsed.error))
                  /\ UNCHANGED << transactions, successfulRows >>
    /\ UNCHANGED fileRows

\* the 'data' handler for the next row of the stream (statementId "" in
\* parseCSV, which has none)
DataHandler(statementId) ==
    /\ totalRows < Len(fileRows)
    /\ LET n == totalRows + 1
           parsed == ParseRow(fileRows[n], n)
       IN /\ totalRows' = n
          /\ IF parsed.kind = "ok"
             THEN /\ transactions' = Append(transactions, Collected(parsed.tx, statementId))
                  /\ successfulRows' = successfulRows + 1
                  /\ UNCHANGED << failedRows, errors >>
             ELSE IF parsed.kind = "null"
             THEN /\ failedRows' = failedRows + 1
                  /\ errors' = Append(errors, RowError(n, InvalidDataFormat))
                  /\ UNCHANGED << transactions, successfulRows >>
             ELSE /\ failedRows' = failedRows + 1
                  /\ errors' = Append(errors, RowError(n, parsed.error))
                  /\ UNCHANGED << transactions, successfulRows >>
    /\ UNCHANGED fileRows

\* the locals of the pass before the first row
PassInit ==
    /\ transactions = << >>
    /\ errors = << >>
    /\ totalRows = 0
    /\ successfulRows = 0
    /\ failedRows = 0

NoParseResult ==
    [transactions |-> << >>, totalRows |-> -1, successfulRows |-> -1,
     failedRows |-> -1, errors |-> << >>]

\* parseCSV: one 'data' event
ParseCsvData ==
    /\ parsePc = "reading"
    /\ DataHandler("")
    /\ UNCHANGED << parsePc, parseResult >>
    /\ UNCHANGED nonParseVars

\* (variant in which the first failed row ends the pass)
ParseCsvEnd_EarlyOnError ==
    /\ parsePc = "reading"
    /\ totalRows = Len(fileRows) \/ errors # << >>
    /\ parsePc' = "resolved"
    /\ parseResult' = [transactions |-> transactions, totalRows |-> totalRows,
                       successfulRows |-> successfulRows, failedRows |-> failedRows,
                       errors |-> errors]
    /\ UNCHANGED passVars
    /\ UNCHANGED nonParseVars

\* parseCSV: 'end' resolves the promise with the ParseResult
ParseCsvEnd ==
    /\ parsePc = "reading"
    /\ totalRows = Len(fileRows)
    /\ parsePc' = "resolved"
    /\ parseResult' = [transactions |-> transactions, totalRows |-> totalRows,
                       successfulRows |-> successfulRows, failedRows |-> failedRows,
                       errors |-> errors]
    /\ UNCHANGED passVars
    /\ UNCHANGED nonParseVars

\* parseCSV: 'error' of the stream rejects the promise
ParseCsvError ==
    /\ parsePc = "reading"
    /\ parsePc' = "rejected"
    /\ UNCHANGED << passVars, parseResult >>
    /\ UNCHANGED nonParseVars

ParseNext == ParseCsvData \/ ParseCsvEnd \/ ParseCsvError

(***************************************************************************)
(* Statement upload, the three stores and InsightsService.runInsights      *)
(***************************************************************************)
\* the insight requests: two explicit runInsights calls and the background
\* trigger fired after ingestion
Requests == {"r1", "r2", "bg"}

\* chunkSize of processStatementFromBuffer
ChunkSize == 1000

\* chunk sizes scaled down so that chunk boundaries fall inside the inputs
\* of the model
SmallChunkSizes == {1, 2}

NoStatement ==
    [exists |-> FALSE, status |-> "<none>", transactionCount |-> 0,
     successfulTransactions |-> 0, failedTransactions |-> 0]

NoInsightRow == [id |-> 0, statementId |-> "<none>", insights |-> NoInsights]

NoOutcome == [kind |-> "<pending>", message |-> "", insight |-> NoInsightRow]

NoResponse ==
    [status |-> "<none>", transactionCount |-> -1, successfulTransactions |-> -1,
     failedTransactions |-> -1]

FailedResponse ==
    [status |-> "failed", transactionCount |-> 0, successfulTransactions |-> 0,
     failedTransactions |-> 0]

\* repository.update(statementId, { status, ... }): no effect on a missing row
UpdateStatus(s, status) == IF s.exists THEN [s EXCEPT !.status = status] ELSE s

StoreInit ==
    /\ statement = NoStatement
    /\ txStore = << >>
    /\ insightStore = << >>
    /\ nextInsightId = 1
    /\ unawaited = {}
    /\ saveIndex = 0
    /\ uploadResponse = NoResponse
    /\ reqPc = [r \in Requests |-> "idle"]
    /\ reqComputed = [r \in Requests |-> NoInsights]
    /\ reqOutcome = [r \in Requests |-> NoOutcome]
    /\ computeCalls = 0

\* uploadStatement up to the save of the new statement row
UploadStatement ==
    /\ upPc = "idle"
    /\ statement' = [NoStatement EXCEPT !.exists = TRUE, !.status = "uploaded"]
    /\ upPc' = "created"
    /\ UNCHANGED << passVars, txStore, insightStore, nextInsightId, unawaited, saveIndex,
                    uploadResponse, requestVars >>
    /\ UNCHANGED nonStoreVars

\* processStatementFromBuffer: the PROCESSING update is issued without
\* await and the stream is set up
ProcessStatementFromBuffer ==
    /\ upPc = "created"
    /\ unawaited' = unawaited \cup {"processing"}
    /\ upPc' = "reading"
    /\ UNCHANGED << passVars, statement, txStore, insightStore, nextInsightId, saveIndex,
                    uploadResponse, requestVars >>
    /\ UNCHANGED nonStoreVars

\* a status update that nobody awaits reaches the database
UnawaitedUpdateLands ==
    /\ \E w \in unawaited :
         /\ unawaited' = unawaited \ {w}
         /\ statement' = UpdateStatus(statement, w)
    /\ UNCHANGED << passVars, upPc, txStore, insightStore, nextInsightId, saveIndex,
                    uploadResponse, requestVars >>
    /\ UNCHANGED nonStoreVars

\* processStatementFromBuffer: one 'data' event
UploadData ==
    /\ upPc = "reading"
    /\ DataHandler("s1")
    /\ UNCHANGED << upPc, storeVars, requestVars >>
    /\ UNCHANGED nonStoreVars

\* processStatementFromBuffer: 'error' of the stream; the FAILED update is
\* not awaited
UploadStreamError ==
    /\ upPc = "reading"
    /\ unawaited' = unawaited \cup {"failed"}
    /\ uploadResponse' = FailedResponse
    /\ upPc' = "done"
    /\ UNCHANGED << passVars, statement, txStore, insightStore, nextInsightId, saveIndex,
                    requestVars >>
    /\ UNCHANGED nonStoreVars

\* 'end' with no parsed transaction: FAILED is written and reported
UploadEndEmpty ==
    /\ upPc = "reading"
    /\ totalRows = Len(fileRows)
    /\ transactions = << >>
    /\ statement' = UpdateStatus(statement, "failed")
    /\ uploadResponse' = FailedResponse
    /\ upPc' = "done"
    /\ UNCHANGED << passVars, txStore, insightStore, nextInsightId, unawaited, saveIndex,
                    requestVars >>
    /\ UNCHANGED nonStoreVars

\* the loop over the chunks has not started or is under way
SavingChunks ==
    \/ upPc = "reading" /\ totalRows = Len(fileRows) /\ transactions # << >>
    \/ upPc = "saving"

\* transactions.slice(i, i + chunkSize)
Slice(s, from, to) ==
    SubSeq(s, from + 1, IF to < Len(s) THEN to ELSE Len(s))

\* (variant whose loop steps one row past the end of the chunk it saved)
SaveChunk_SkipsBoundary ==
    /\ SavingChunks
    /\ statement.exists
    /\ txStore' = txStore \o Slice(transactions, saveIndex, saveIndex + chunkSize)
    /\ saveIndex' = saveIndex + chunkSize + 1
    /\ upPc' = IF saveIndex + chunkSize + 1 < Len(transactions) THEN "saving" ELSE "saved"
    /\ UNCHANGED << passVars, statement, insightStore, nextInsightId, unawaited,
                    uploadResponse, requestVars >>
    /\ UNCHANGED nonStoreVars

\* 'end': transactionRepository.save(chunk) succeeds for the next chunk
SaveChunk ==
    /\ SavingChunks
    /\ statement.exists
    /\ txStore' = txStore \o Slice(transactions, saveIndex, saveIndex + chunkSize)
    /\ saveIndex' = saveIndex + chunkSize
    /\ upPc' = IF saveIndex + chunkSize < Len(transactions) THEN "saving" ELSE "saved"
    /\ UNCHANGED << passVars, statement, insightStore, nextInsightId, unawaited,
                    uploadResponse, requestVars >>
    /\ UNCHANGED nonStoreVars

\* 'end': the save of the next chunk throws (the statement row is gone, or
\* the database fails); control goes to the catch block
SaveChunkFails ==
    /\ SavingChunks
    /\ upPc' = "catch"
    /\ UNCHANGED << passVars, statement, txStore, insightStore, nextInsightId, unawaited,
                    saveIndex, uploadResponse, requestVars >>
    /\ UNCHANGED nonStoreVars

\* 'end': PROCESSED and the counts are written, computeInsightsAsync is
\* started without await, the upload reports PROCESSED
MarkProcessed ==
    /\ upPc = "saved"
    /\ statement' = IF statement.exists
                    THEN [statement EXCEPT !.status = "processed",
                                           !.transactionCount = totalRows,
                                           !.successfulTransactions = successfulRows,
                                           !.failedTransactions = failedRows]
                    ELSE statement
    /\ reqPc' = [reqPc EXCEPT !["bg"] = "lookup"]
    /\ uploadResponse' = [status |-> "processed", transactionCount |-> totalRows,
                          successfulTransactions |-> successfulRows,
                          failedTransactions |-> failedRows]
    /\ upPc' = "done"
    /\ UNCHANGED << passVars, txStore, insightStore, nextInsightId, unawaited, saveIndex,
                    reqComputed, reqOutcome, computeCalls >>
    /\ UNCHANGED nonStoreVars

\* the catch block of the 'end' handler: FAILED is written and reported
CatchMarkFailed ==
    /\ upPc = "catch"
    /\ statement' = UpdateStatus(statement, "failed")
    /\ uploadResponse' = FailedResponse
    /\ upPc' = "done"
    /\ UNCHANGED << passVars, txStore, insightStore, nextInsightId, unawaited, saveIndex,
                    requestVars >>
    /\ UNCHANGED nonStoreVars

\* deleteStatement: the row goes, its transactions and insight cascade
DeleteStatement ==
    /\ statement.exists
    /\ statement' = NoStatement
    /\ txStore' = << >>
    /\ insightStore' = << >>
    /\ UNCHANGED << passVars, upPc, nextInsightId, unawaited, saveIndex, uploadResponse,
                    requestVars >>
    /\ UNCHANGED nonStoreVars

\* deleteInsights
DeleteInsights ==
    /\ insightStore # << >>
    /\ insightStore' = << >>
    /\ UNCHANGED << passVars, upPc, statement, txStore, nextInsightId, unawaited, saveIndex,
                    uploadResponse, requestVars >>
    /\ UNCHANGED nonStoreVars

\* an explicit runInsights call arrives; it issues the statement lookup
RunInsights(r) ==
    /\ r # "bg"
    /\ reqPc[r] = "idle"
    /\ reqPc' = [reqPc EXCEPT ![r] = "findStatement"]
    /\ UNCHANGED << passVars, upPc, storeVars, reqComputed, reqOutcome, computeCalls >>
    /\ UNCHANGED nonStoreVars

Outcome(kind, message, row) == [kind |-> kind, message |-> message, insight |-> row]

\* `Failed to compute insights: ${error.message}`
FailedToCompute(cause) ==
    CASE cause = "No transactions found for statement" ->
             "Failed to compute insights: No transactions found for statement"
      [] cause = "Duplicate entry" -> "Failed to compute insights: Duplicate entry"
      [] cause = "Connection terminated" ->
             "Failed to compute insights: Connection terminated"
      [] OTHER -> "Failed to compute insights: Foreign key constraint fails"

\* computeInsightsAsync: findOne({ id: statementId }); the call to
\* runInsights is skipped when the statement is gone
BackgroundLookup ==
    /\ reqPc["bg"] = "lookup"
    /\ IF statement.exists
       THEN /\ reqPc' = [reqPc EXCEPT !["bg"] = "findStatement"]
            /\ UNCHANGED reqOutcome
       ELSE /\ reqPc' = [reqPc EXCEPT !["bg"] = "done"]
            /\ reqOutcome' = [reqOutcome EXCEPT !["bg"] = Outcome("skipped", "", NoInsightRow)]
    /\ UNCHANGED << passVars, upPc, storeVars, reqComputed, computeCalls >>
    /\ UNCHANGED nonStoreVars

\* (variant that lets any existing statement through)
FindStatement_NoStatusCheck(r) ==
    /\ reqPc[r] = "findStatement"
    /\ IF ~statement.exists
       THEN /\ reqPc' = [reqPc EXCEPT ![r] = "done"]
            /\ reqOutcome' = [reqOutcome EXCEPT ![r] =
                    Outcome("NotFound", "Statement not found", NoInsightRow)]
       ELSE /\ reqPc' = [reqPc EXCEPT ![r] = "findInsight"]
            /\ UNCHANGED reqOutcome
    /\ UNCHANGED << passVars, upPc, storeVars, reqComputed, computeCalls >>
    /\ UNCHANGED nonStoreVars

\* runInsights: the statement is read; NotFound / BadRequest unless it
\* exists with status PROCESSED
FindStatement(r) ==
    /\ reqPc[r] = "findStatement"
    /\ IF ~statement.exists
       THEN /\ reqPc' = [reqPc EXCEPT ![r] = "done"]
            /\ reqOutcome' = [reqOutcome EXCEPT ![r] =
                    Outcome("NotFound", "Statement not found", NoInsightRow)]
       ELSE IF statement.status # "processed"
       THEN /\ reqPc' = [reqPc EXCEPT ![r] = "done"]
            /\ reqOutcome' = [reqOutcome EXCEPT ![r] =
                    Outcome("BadRequest",
                            "Statement must be processed before computing insights",
                            NoInsightRow)]
       ELSE /\ reqPc' = [reqPc EXCEPT ![r] = "findInsight"]
            /\ UNCHANGED reqOutcome
    /\ UNCHANGED << passVars, upPc, storeVars, reqComputed, computeCalls >>
    /\ UNCHANGED nonStoreVars

\* (variant that never looks for a stored insight)
FindInsight_AlwaysCompute(r) ==
    /\ reqPc[r] = "findInsight"
    /\ reqPc' = [reqPc EXCEPT ![r] = "findTransactions"]
    /\ computeCalls' = computeCalls + 1
    /\ UNCHANGED << passVars, upPc, storeVars, reqComputed, reqOutcome >>
    /\ UNCHANGED nonStoreVars

\* runInsights: the insight of the statement is looked up; a stored one is
\* returned, otherwise computeInsights is called
FindInsight(r) ==
    /\ reqPc[r] = "findInsight"
    /\ IF insightStore # << >>
       THEN /\ reqPc' = [reqPc EXCEPT ![r] = "done"]
            /\ reqOutcome' = [reqOutcome EXCEPT ![r] = Outcome("ok", "", insightStore[1])]
            /\ UNCHANGED computeCalls
       ELSE /\ reqPc' = [reqPc EXCEPT ![r] = "findTransactions"]
            /\ computeCalls' = computeCalls + 1
            /\ UNCHANGED reqOutcome
    /\ UNCHANGED << passVars, upPc, storeVars, reqComputed >>
    /\ UNCHANGED nonStoreVars

\* the orders in which find({ order: { date: 'ASC' } }) can return the rows
DateAscending(rows) ==
    { ordered \in { [i \in 1..Len(rows) |-> rows[p[i]]] : p \in Permutations(1..Len(rows)) } :
        \A i \in 1..(Len(ordered) - 1) : ordered[i].date <= ordered[i + 1].date }

\* computeInsights: the transactions are read and the insights computed;
\* a throw is turned into a BadRequest by runInsights
FindTransactions(r) ==
    /\ reqPc[r] = "findTransactions"
    /\ \E ordered \in DateAscending(txStore) :
         LET computed == ComputeInsights(ordered) IN
         IF computed.kind = "throw"
         THEN /\ reqPc' = [reqPc EXCEPT ![r] = "done"]
              /\ reqOutcome' = [reqOutcome EXCEPT ![r] =
                      Outcome("BadRequest", FailedToCompute(computed.error), NoInsightRow)]
              /\ UNCHANGED reqComputed
         ELSE /\ reqPc' = [reqPc EXCEPT ![r] = "save"]
              /\ reqComputed' = [reqComputed EXCEPT ![r] = computed.insights]
              /\ UNCHANGED reqOutcome
    /\ UNCHANGED << passVars, upPc, storeVars, computeCalls >>
    /\ UNCHANGED nonStoreVars

\* insightRepository.save inserts the row: the statement exists and has no
\* insight yet (statementId is the unique join column of the one-to-one)
SaveInsight(r) ==
    /\ reqPc[r] = "save"
    /\ statement.exists
    /\ insightStore = << >>
    /\ LET row == [id |-> nextInsightId, statementId |-> "s1", insights |-> reqComputed[r]]
       IN /\ insightStore' = << row >>
          /\ reqOutcome' = [reqOutcome EXCEPT ![r] = Outcome("ok", "", row)]
    /\ nextInsightId' = nextInsightId + 1
    /\ reqPc' = [reqPc EXCEPT ![r] = "done"]
    /\ UNCHANGED << passVars, upPc, statement, txStore, unawaited, saveIndex,
                    uploadResponse, reqComputed, computeCalls >>
    /\ UNCHANGED nonStoreVars

\* insightRepository.save is rejected: another insight of the statement is
\* already stored (duplicate key)
SaveInsightDuplicate(r) ==
    /\ reqPc[r] = "save"
    /\ statement.exists
    /\ insightStore # << >>
    /\ reqOutcome' = [reqOutcome EXCEPT ![r] =
            Outcome("BadRequest", FailedToCompute("Duplicate entry"), NoInsightRow)]
    /\ reqPc' = [reqPc EXCEPT ![r] = "done"]
    /\ UNCHANGED << passVars, upPc, storeVars, reqComputed, computeCalls >>
    /\ UNCHANGED nonStoreVars

\* insightRepository.save is rejected: the statement row is gone
\* (foreign key)
SaveInsightOrphan(r) ==
    /\ reqPc[r] = "save"
    /\ ~statement.exists
    /\ reqOutcome' = [reqOutcome EXCEPT ![r] =
            Outcome("BadRequest", FailedToCompute("Foreign key constraint fails"), NoInsightRow)]
    /\ reqPc' = [reqPc EXCEPT ![r] = "done"]
    /\ UNCHANGED << passVars, upPc, storeVars, reqComputed, computeCalls >>
    /\ UNCHANGED nonStoreVars

\* insightRepository.save is rejected by the database for a reason of its
\* own (the connection is lost)
SaveInsightFails(r) ==
    /\ reqPc[r] = "save"
    /\ reqOutcome' = [reqOutcome EXCEPT ![r] =
            Outcome("BadRequest", FailedToCompute("Connection terminated"), NoInsightRow)]
    /\ reqPc' = [reqPc EXCEPT ![r] = "done"]
    /\ UNCHANGED << passVars, upPc, storeVars, reqComputed, computeCalls >>
    /\ UNCHANGED nonStoreVars

RequestStep(r) ==
    \/ RunInsights(r)
    \/ FindStatement(r)
    \/ FindInsight(r)
    \/ FindTransactions(r)
    \/ SaveInsight(r)
    \/ SaveInsightDuplicate(r)
    \/ SaveInsightOrphan(r)
    \/ SaveInsightFails(r)

\* the steps of one upload
IngestNext ==
    \/ UploadStatement
    \/ ProcessStatementFromBuffer
    \/ UnawaitedUpdateLands
    \/ UploadData
    \/ UploadStreamError
    \/ UploadEndEmpty
    \/ SaveChunk
    \/ SaveChunkFails
    \/ MarkProcessed
    \/ CatchMarkFailed

StoreNext ==
    \/ IngestNext
    \/ DeleteStatement
    \/ DeleteInsights
    \/ BackgroundLookup
    \/ \E r \in Requests : RequestStep(r)

(***************************************************************************)
(* BureauService.checkCredit: the report row around the client call        *)
(* A repository call may be rejected by the database; the invocation sees  *)
(* at most MaxStoreFaults rejections.                                      *)
(***************************************************************************)
NoReport == [exists |-> FALSE, status |-> "<none>"]

\* BureauService.checkCredit is not running
BureauIdle ==
    /\ bsPc = "off"
    /\ bureauReport = NoReport
    /\ bsOutcome = "<pending>"
    /\ storeFaults = 0

\* userRepository.findOne: NotFoundException when there is no such user
BureauFindUser ==
    /\ bsPc = "idle"
    /\ \E found \in BOOLEAN :
         IF found
         THEN bsPc' = "create" /\ UNCHANGED bsOutcome
         ELSE bsPc' = "done" /\ bsOutcome' = "threw"
    /\ UNCHANGED << bureauReport, storeFaults, clientVars >>
    /\ UNCHANGED nonBureauVars

\* bureauReportRepository.save of the PENDING report
BureauSaveReport ==
    /\ bsPc = "create"
    /\ bureauReport' = [exists |-> TRUE, status |-> "pending"]
    /\ bsPc' = "call"
    /\ UNCHANGED << bsOutcome, storeFaults, clientVars >>
    /\ UNCHANGED nonBureauVars

\* findOne of the user or save of the report is rejected, before the try
BureauEntryFault ==
    /\ bsPc \in {"idle", "create"}
    /\ storeFaults < MaxStoreFaults
    /\ storeFaults' = storeFaults + 1
    /\ bsPc' = "done"
    /\ bsOutcome' = "threw"
    /\ UNCHANGED << bureauReport, clientVars >>
    /\ UNCHANGED nonBureauVars

\* the request is built and bureauHttpClient.checkCredit is called
BureauCallsClient ==
    /\ bsPc = "call"
    /\ bsPc' = "awaiting"
    /\ UNCHANGED << bureauReport, bsOutcome, storeFaults, clientVars >>
    /\ UNCHANGED nonBureauVars

\* bureauHttpClient.checkCredit runs; its request is an object
BureauClientRuns ==
    /\ bsPc = "awaiting"
    /\ \/ CheckCreditStart(1)
       \/ AttemptSucceeds(1)
       \/ AttemptFailsPermanently(1)
       \/ AttemptFailsRetry(1)
       \/ AttemptFailsExhausted(1)
       \/ SleepEnds(1)

\* the result of the client: `result.success && result.data`
BureauClientReturns ==
    /\ bsPc = "awaiting"
    /\ ccPc[1] = "returned"
    /\ bsPc' = IF ccResult[1].success /\ ccResult[1].data # "<none>"
               THEN "updateSuccess" ELSE "updateFailed"
    /\ UNCHANGED << bureauReport, bsOutcome, storeFaults, clientVars >>
    /\ UNCHANGED nonBureauVars

\* update(savedReport.id, { status: SUCCESS, ... })
BureauUpdateSuccess ==
    /\ bsPc = "updateSuccess"
    /\ bureauReport' = [bureauReport EXCEPT !.status = "success"]
    /\ bsPc' = "fetch"
    /\ UNCHANGED << bsOutcome, storeFaults, clientVars >>
    /\ UNCHANGED nonBureauVars

\* findOne of the updated report; the response is returned
BureauFetchUpdated ==
    /\ bsPc = "fetch"
    /\ bsPc' = "done"
    /\ bsOutcome' = "returned"
    /\ UNCHANGED << bureauReport, storeFaults, clientVars >>
    /\ UNCHANGED nonBureauVars

\* update(savedReport.id, { status: FAILED, ... }) and the
\* BadRequestException thrown inside the try
BureauUpdateFailed ==
    /\ bsPc = "updateFailed"
    /\ bureauReport' = [bureauReport EXCEPT !.status = "failed"]
    /\ bsPc' = "catchFind"
    /\ UNCHANGED << bsOutcome, storeFaults, clientVars >>
    /\ UNCHANGED nonBureauVars

\* a repository call inside the try is rejected: control goes to the catch
BureauTryFault ==
    /\ bsPc \in {"updateSuccess", "fetch", "updateFailed"}
    /\ storeFaults < MaxStoreFaults
    /\ storeFaults' = storeFaults + 1
    /\ bsPc' = "catchFind"
    /\ UNCHANGED << bureauReport, bsOutcome, clientVars >>
    /\ UNCHANGED nonBureauVars

\* catch: findOne of the current report; FAILED is written only over PENDING
BureauCatchFind ==
    /\ bsPc = "catchFind"
    /\ IF bureauReport.status = "pending"
       THEN bsPc' = "catchUpdate" /\ UNCHANGED bsOutcome
       ELSE bsPc' = "done" /\ bsOutcome' = "threw"
    /\ UNCHANGED << bureauReport, storeFaults, clientVars >>
    /\ UNCHANGED nonBureauVars

\* catch: update(savedReport.id, { status: FAILED, ... }), then the throw
BureauCatchUpdate ==
    /\ bsPc = "catchUpdate"
    /\ bureauReport' = [bureauReport EXCEPT !.status = "failed"]
    /\ bsPc' = "done"
    /\ bsOutcome' = "threw"
    /\ UNCHANGED << storeFaults, clientVars >>
    /\ UNCHANGED nonBureauVars

\* a repository call inside the catch is rejected: its error leaves the call
BureauCatchFault ==
    /\ bsPc \in {"catchFind", "catchUpdate"}
    /\ storeFaults < MaxStoreFaults
    /\ storeFaults' = storeFaults + 1
    /\ bsPc' = "done"
    /\ bsOutcome' = "threw"
    /\ UNCHANGED << bureauReport, clientVars >>
    /\ UNCHANGED nonBureauVars

BureauNext ==
    \/ BureauFindUser
    \/ BureauSaveReport
    \/ BureauEntryFault
    \/ BureauCallsClient
    \/ BureauClientRuns
    \/ BureauClientReturns
    \/ BureauUpdateSuccess
    \/ BureauFetchUpdated
    \/ BureauUpdateFailed
    \/ BureauTryFault
    \/ BureauCatchFind
    \/ BureauCatchUpdate
    \/ BureauCatchFault

(***************************************************************************)
(* Specifications                                                          *)
(***************************************************************************)
ClientIdle ==
    /\ maxRetries = DefaultMaxRetries
    /\ ccPc = [c \in Calls |-> "off"]
    /\ attempt = [c \in Calls |-> 0]
    /\ retryCount = [c \in Calls |-> 0]
    /\ lastError = [c \in Calls |-> ""]
    /\ httpStatusCode = [c \in Calls |-> 0]
    /\ ccResult = [c \in Calls |-> NoResult]
    /\ ccTrace = [c \in Calls |-> << >>]

ParseIdle == parsePc = "off" /\ parseResult = NoParseResult

\* one checkCredit invocation against every sequence of downstream outcomes
InitClient ==
    /\ ClientInit({1})
    /\ fileRows = << >> /\ PassInit /\ ParseIdle
    /\ upPc = "off" /\ StoreInit /\ chunkSize = ChunkSize
    /\ ComputeIdle /\ BackoffIdle /\ BureauIdle

SpecClient == InitClient /\ [][ClientNext]_vars

\* one BureauService.checkCredit call with its client call
InitBureau ==
    /\ ClientInit({1})
    /\ fileRows = << >> /\ PassInit /\ ParseIdle
    /\ upPc = "off" /\ StoreInit /\ chunkSize = ChunkSize
    /\ ComputeIdle /\ BackoffIdle
    /\ bsPc = "idle" /\ bureauReport = NoReport /\ bsOutcome = "<pending>" /\ storeFaults = 0

SpecBureau == InitBureau /\ [][BureauNext]_vars

\* two checkCredit invocations side by side, in every interleaving
InitClientPair ==
    /\ ClientInit(Calls)
    /\ maxRetries <= MaxPairRetries
    /\ fileRows = << >> /\ PassInit /\ ParseIdle
    /\ upPc = "off" /\ StoreInit /\ chunkSize = ChunkSize
    /\ ComputeIdle /\ BackoffIdle /\ BureauIdle

SpecClientPair == InitClientPair /\ [][ClientNext]_vars

\* parseCSV over every input of at most MaxRows sample rows
InitParse ==
    /\ ClientIdle
    /\ fileRows \in BoundedSeq(SampleRows, MaxRows)
    /\ PassInit
    /\ parsePc = "reading" /\ parseResult = NoParseResult
    /\ upPc = "off" /\ StoreInit /\ chunkSize = ChunkSize
    /\ ComputeIdle /\ BackoffIdle /\ BureauIdle

SpecParse == InitParse /\ [][ParseNext]_vars

\* parseCSV of a file with one unresolvable row among other rows
InitUnresolvable ==
    /\ ClientIdle
    /\ \E before \in BoundedSeq({SalaryRow, InvalidDateRow}, MaxAround),
          after \in BoundedSeq({SalaryRow, InvalidDateRow}, MaxAround),
          u \in UnresolvableRows :
            fileRows = before \o << u >> \o after
    /\ PassInit
    /\ parsePc = "reading" /\ parseResult = NoParseResult
    /\ upPc = "off" /\ StoreInit /\ chunkSize = ChunkSize
    /\ ComputeIdle /\ BackoffIdle /\ BureauIdle

SpecUnresolvable == InitUnresolvable /\ [][ParseNext]_vars

\* parseCSV of every file of up to MaxDescriptionRows description rows
InitCategorize ==
    /\ ClientIdle
    /\ fileRows \in BoundedSeq(DescriptionRows, MaxDescriptionRows)
    /\ PassInit
    /\ parsePc = "reading" /\ parseResult = NoParseResult
    /\ upPc = "off" /\ StoreInit /\ chunkSize = ChunkSize
    /\ ComputeIdle /\ BackoffIdle /\ BureauIdle

SpecCategorize == InitCategorize /\ [][ParseNext]_vars

\* one upload of at most MaxUploadRows sample rows, the insight requests
\* and the deletions, in every interleaving
Init ==
    /\ ClientIdle
    /\ fileRows \in BoundedSeq(UploadRows, MaxUploadRows)
    /\ PassInit /\ ParseIdle
    /\ upPc = "idle" /\ StoreInit /\ chunkSize = ChunkSize
    /\ ComputeIdle /\ BackoffIdle /\ BureauIdle

Next == StoreNext

Spec == Init /\ [][Next]_vars

\* one upload on its own, with the chunk size scaled down
InitChunked ==
    /\ ClientIdle
    /\ fileRows \in BoundedSeq(UploadRows, MaxUploadRows)
    /\ PassInit /\ ParseIdle
    /\ upPc = "idle" /\ StoreInit /\ chunkSize \in SmallChunkSizes
    /\ ComputeIdle /\ BackoffIdle /\ BureauIdle

SpecChunked == InitChunked /\ [][IngestNext]_vars

\* computeInsightsAsync and the runInsights it awaits
ComputeInsightsAsync ==
    \/ BackgroundLookup
    \/ FindStatement("bg")
    \/ FindInsight("bg")
    \/ FindTransactions("bg")
    \/ SaveInsight("bg")

\* one upload and the background computation it starts, with no request
\* of a user; the event loop runs every continuation that is ready
AutoNext == IngestNext \/ ComputeInsightsAsync

SpecAuto == Init /\ [][AutoNext]_vars /\ WF_vars(ComputeInsightsAsync)

\* the sequences find({ order: { date: 'ASC' } }) can return
IsDateAscending(rows) == \A i \in 1..(Len(rows) - 1) : rows[i].date <= rows[i + 1].date

\* one computeInsights call on every date-ordered list of at most
\* MaxTransactions sample transactions
InitCompute ==
    /\ ClientIdle
    /\ fileRows = << >> /\ PassInit /\ ParseIdle
    /\ upPc = "off" /\ StoreInit /\ chunkSize = ChunkSize
    /\ computePc = "called"
    /\ computeInput \in { rows \in BoundedSeq(SampleTransactions, MaxTransactions) :
                            IsDateAscending(rows) }
    /\ computeOutput = NoInsights
    /\ BackoffIdle /\ BureauIdle

SpecCompute == InitCompute /\ [][ComputeNext]_vars

\* one computeInsights call for every date-ordered list of up to
\* MaxRiskTransactions risk transactions
InitRisk ==
    /\ ClientIdle
    /\ fileRows = << >> /\ PassInit /\ ParseIdle
    /\ upPc = "off" /\ StoreInit /\ chunkSize = ChunkSize
    /\ computePc = "called"
    /\ computeInput \in { rows \in BoundedSeq(RiskTransactions, MaxRiskTransactions) :
                            IsDateAscending(rows) }
    /\ computeOutput = NoInsights
    /\ BackoffIdle /\ BureauIdle

SpecRisk == InitRisk /\ [][ComputeNext]_vars

\* one computeInsights call for every list of up to MaxBucketTransactions
\* bucket transactions
InitBuckets ==
    /\ ClientIdle
    /\ fileRows = << >> /\ PassInit /\ ParseIdle
    /\ upPc = "off" /\ StoreInit /\ chunkSize = ChunkSize
    /\ computePc = "called"
    /\ computeInput \in { rows \in BoundedSeq(BucketTransactions, MaxBucketTransactions) :
                            IsDateAscending(rows) }
    /\ computeOutput = NoInsights
    /\ BackoffIdle /\ BureauIdle

SpecBuckets == InitBuckets /\ [][ComputeNext]_vars

\* one calculateBackoffDelay call for every explored base delay and every
\* retry attempt up to MaxBackoffAttempt
InitBackoff ==
    /\ ClientIdle
    /\ fileRows = << >> /\ PassInit /\ ParseIdle
    /\ upPc = "off" /\ StoreInit /\ chunkSize = ChunkSize
    /\ ComputeIdle /\ BureauIdle
    /\ delayPc = "called"
    /\ delayBase \in BaseDelays
    /\ delayAttempt \in 1..MaxBackoffAttempt
    /\ delayValue = 0

SpecBackoff == InitBackoff /\ [][BackoffNext]_vars

(***************************************************************************)
(* Properties of the resilient client                                      *)
(***************************************************************************)
IsAttempt(e) == e.ev = "attempt"
IsSleep(e) == e.ev = "sleep"
IsResult(e) == e.ev = "result"

\* downstream attempts started / backoff sleeps started / results seen so far
AttemptsMade(c) == Len(SelectSeq(ccTrace[c], IsAttempt))
SleepsMade(c) == Len(SelectSeq(ccTrace[c], IsSleep))
ResultsSeen(c) == SelectSeq(ccTrace[c], IsResult)
ResultStatuses(c) == [i \in 1..Len(ResultsSeen(c)) |-> ResultsSeen(c)[i].status]

\* number of sleeps among the first i events of the trace
SleepsBefore(c, i) == Len(SelectSeq(SubSeq(ccTrace[c], 1, i), IsSleep))

\* C1: one checkCredit call makes at most maxRetries + 1 downstream attempts
\* (at most 4 with the default of 3 retries), and the first thing it does is
\* an attempt, never a sleep.
C1_AttemptsBounded ==
    \A c \in Calls :
        /\ AttemptsMade(c) <= maxRetries + 1
        /\ (maxRetries = DefaultMaxRetries => AttemptsMade(c) <= 4)
        /\ (ccTrace[c] # << >> => IsAttempt(ccTrace[c][1]))
        /\ SleepsMade(c) <= maxRetries

\* the default budget was used up: 4 attempts were made
C1_Witness ==
    /\ maxRetries = DefaultMaxRetries
    /\ ccPc[1] = "returned"
    /\ AttemptsMade(1) = 4

PermanentStatuses == {400, 401, 403, 404}

\* C2: a failed attempt with status 400, 401, 403 or 404 is the last event of
\* the call: the call has returned success=false with that status and with
\* retryCount = the retries made before it; alone on attempt 0 that is
\* retryCount 0 and one attempt.
C2_PermanentFailureReturns ==
    \A c \in Calls : \A i \in 1..Len(ccTrace[c]) :
        LET e == ccTrace[c][i] IN
        (IsResult(e) /\ ~e.success /\ e.status \in PermanentStatuses) =>
            /\ i = Len(ccTrace[c])
            /\ ccPc[c] = "returned"
            /\ ccResult[c].success = FALSE
            /\ ccResult[c].httpStatusCode = e.status
            /\ ccResult[c].retryCount = SleepsBefore(c, i)
            /\ ccResult[c].retryCount = AttemptsMade(c) - 1
            /\ (i = 2 => ccResult[c].retryCount = 0 /\ AttemptsMade(c) = 1)

\* a 404 after two retried failures
C2_Witness ==
    /\ ccPc[1] = "returned"
    /\ Len(ResultsSeen(1)) = 3
    /\ Last(ccTrace[1]).status = 404
    /\ ccResult[1].retryCount = 2

\* C3: a successful attempt is the last event of the call: the call has
\* returned success=true with the payload and retryCount = attempts - 1;
\* 500, 500, 500, success under maxRetries = 3 gives retryCount 3, 4 attempts.
C3_SuccessReturns ==
    \A c \in Calls :
        /\ \A i \in 1..Len(ccTrace[c]) :
              LET e == ccTrace[c][i] IN
              (IsResult(e) /\ e.success) =>
                  /\ i = Len(ccTrace[c])
                  /\ ccPc[c] = "returned"
                  /\ ccResult[c].success = TRUE
                  /\ ccResult[c].data = "payload"
                  /\ ccResult[c].retryCount = AttemptsMade(c) - 1
                  /\ ccResult[c].retryCount = SleepsBefore(c, i)
                  /\ ccResult[c].retryCount <= maxRetries
        /\ (maxRetries = 3 /\ ResultStatuses(c) = << 500, 500, 500, 200 >>) =>
              /\ ccResult[c].success = TRUE
              /\ ccResult[c].retryCount = 3
              /\ AttemptsMade(c) = 4

\* three 500-class failures, then a success
C3_Witness ==
    /\ maxRetries = 3
    /\ ResultStatuses(1) = << 500, 500, 500, 200 >>
    /\ ccPc[1] = "returned"

\* every result seen so far is a failure
AllFailed(c) == \A i \in 1..Len(ResultsSeen(c)) : ~ResultsSeen(c)[i].success

\* the error text checkCredit keeps for an attempt's result
KeptErrorText(e) == IF e.text = "" THEN "Unknown error" ELSE e.text

\* C4: when all maxRetries + 1 attempts have failed with transient outcomes,
\* the call has returned success=false, retryCount = maxRetries, the status
\* of the last attempt and the message "Failed after <maxRetries> retries:
\* <error of the last attempt>".
C4_ExhaustionResult ==
    \A c \in Calls :
        (/\ Len(ResultsSeen(c)) = maxRetries + 1
         /\ AllFailed(c)
         /\ \A i \in 1..Len(ResultsSeen(c)) :
               ResultsSeen(c)[i].status \in {0, 429, 500, 502, 503, 504}) =>
            /\ ccPc[c] = "returned"
            /\ ccResult[c].success = FALSE
            /\ ccResult[c].retryCount = maxRetries
            /\ ccResult[c].httpStatusCode = Last(ccTrace[c]).status
            /\ ccResult[c].error.failedAfter = maxRetries
            /\ ccResult[c].error.text = KeptErrorText(Last(ccTrace[c]))

\* four transient failures whose last status differs from the one before
C4_Witness ==
    /\ maxRetries = 3
    /\ ResultStatuses(1) = << 500, 0, 429, 503 >>
    /\ ccPc[1] = "returned"

\* C5: a failed attempt is followed by a sleep and another attempt exactly
\* when its status is 0, 429, 500, 502, 503 or 504 and fewer than maxRetries
\* retries were consumed before it; otherwise it ends the call.
C5_RetryIffTransient ==
    \A c \in Calls : \A i \in 1..Len(ccTrace[c]) :
        LET e == ccTrace[c][i]
            goesOn == /\ e.status \in {0, 429, 500, 502, 503, 504}
                      /\ SleepsBefore(c, i) < maxRetries
        IN (IsResult(e) /\ ~e.success) =>
            /\ goesOn =>
                  /\ i < Len(ccTrace[c])
                  /\ IsSleep(ccTrace[c][i + 1])
                  /\ IF i + 1 < Len(ccTrace[c])
                     THEN IsAttempt(ccTrace[c][i + 2])
                     ELSE ccPc[c] = "sleeping"
            /\ ~goesOn => i = Len(ccTrace[c]) /\ ccPc[c] = "returned"

\* a network failure (status 0) was retried and a 422 then ended the call
C5_Witness ==
    /\ Len(ResultStatuses(1)) = 2
    /\ ResultStatuses(1)[1] = 0
    /\ ResultStatuses(1)[2] = 422
    /\ ccPc[1] = "returned"

(***************************************************************************)
(* Properties of the ingestion pass                                        *)
(***************************************************************************)
\* C8: after every row of the pass, and in the ParseResult it resolves
\* with, successfulRows + failedRows = totalRows, the collected transactions
\* number successfulRows and the collected error messages number failedRows.
C8_RowCountsAddUp ==
    /\ successfulRows + failedRows = totalRows
    /\ Len(transactions) = successfulRows
    /\ Len(errors) = failedRows
    /\ parsePc = "resolved" =>
         /\ parseResult.successfulRows + parseResult.failedRows = parseResult.totalRows
         /\ Len(parseResult.transactions) = parseResult.successfulRows
         /\ Len(parseResult.errors) = parseResult.failedRows
         /\ parseResult.totalRows = totalRows

\* a resolved pass over a mixed input: parsed, skipped and failed rows
C8_Witness ==
    /\ parsePc = "resolved"
    /\ parseResult.successfulRows >= 1
    /\ \E i, j \in 1..Len(parseResult.errors) :
         /\ parseResult.errors[i].message = InvalidDataFormat
         /\ parseResult.errors[j].message.prefix = "Invalid date format"

\* the ordinals, among the first n rows of the input, of the rows parseRow
\* accepts / of the rows it skips or rejects
ParsedOrdinals(n) == { i \in 1..n : ParseRow(fileRows[i], i).kind = "ok" }
FailedOrdinals(n) == { i \in 1..n : ParseRow(fileRows[i], i).kind # "ok" }

\* the elements of a set of ordinals in increasing order
RECURSIVE Ascending(_)
Ascending(S) == IF S = {} THEN << >> ELSE << Min(S) >> \o Ascending(S \ {Min(S)})

\* C9: a skipped or failed row does not end the pass: the pass resolves only
\* after the last row of the input, each skipped or failed
\* row has left exactly one message carrying its ordinal, and the collected
\* transactions are those of the parsed rows, in input order.
C9_RowFailureDoesNotAbort ==
    LET parsed == Ascending(ParsedOrdinals(totalRows))
        failed == Ascending(FailedOrdinals(totalRows))
    IN /\ Len(transactions) = Len(parsed)
       /\ \A k \in 1..Len(parsed) :
            transactions[k] = ParseRow(fileRows[parsed[k]], parsed[k]).tx
       /\ Len(errors) = Len(failed)
       /\ \A k \in 1..Len(failed) : errors[k].row = failed[k]
       /\ parsePc = "resolved" =>
            /\ parseResult.totalRows = Len(fileRows)
            /\ parseResult.transactions = transactions
            /\ parseResult.errors = errors

\* a row that throws and a skipped row are followed by a row that parses
C9_Witness ==
    /\ parsePc = "resolved"
    /\ Len(fileRows) = 3
    /\ fileRows[1] = InvalidAmountRow
    /\ fileRows[2] = MissingDateRow
    /\ fileRows[3] = OverdraftRow
    /\ Len(parseResult.transactions) = 1
    /\ parseResult.errors[1].row = 1
    /\ parseResult.errors[2].row = 2

NothingDeleted == statement.exists /\ Len(insightStore) = nextInsightId - 1

\* C7: of two requests that both went through a first-time computation for
\* the processed statement, both complete with the one persisted insight.
C7_RacingRequestsAgree ==
    NothingDeleted =>
        /\ Len(insightStore) <= 1
        /\ \A r1, r2 \in Requests :
             (/\ r1 # r2
              /\ reqPc[r1] = "done" /\ reqPc[r2] = "done"
              /\ reqComputed[r1] # NoInsights /\ reqComputed[r2] # NoInsights) =>
                 /\ reqOutcome[r1].kind = "ok"
                 /\ reqOutcome[r2].kind = "ok"
                 /\ reqOutcome[r1].insight = reqOutcome[r2].insight
                 /\ insightStore = << reqOutcome[r1].insight >>

\* C10: computeInsights on an empty transaction list throws, so no request
\* ever holds a ComputedInsights built from no transaction; the runInsights
\* request that ran into it ends with a failure and the step leaves the
\* insight store untouched.
C10_EmptyInputFails ==
    /\ [](\A r \in Requests :
            /\ reqComputed[r] # ZeroInsights
            /\ reqComputed[r] # NoInsights => reqComputed[r].parsing.totalTransactions > 0
            /\ \A row \in Range(insightStore) : row.insights.parsing.totalTransactions > 0)
    /\ [][\A r \in Requests :
            (reqPc[r] = "findTransactions" /\ reqPc'[r] # "findTransactions" /\ txStore = << >>) =>
                /\ reqPc'[r] = "done"
                /\ reqOutcome'[r].kind = "BadRequest"
                /\ reqOutcome'[r].message =
                       "Failed to compute insights: No transactions found for statement"
                /\ reqOutcome'[r].insight = NoInsightRow
                /\ insightStore' = insightStore
       ]_vars

\* a request found the statement processed, then no transaction to compute
\* from, and failed; no insight is stored
C10_Witness ==
    \E r \in Requests :
        /\ reqPc[r] = "done"
        /\ reqOutcome[r].kind = "BadRequest"
        /\ reqOutcome[r].message =
               "Failed to compute insights: No transactions found for statement"
        /\ insightStore = << >>

\* the statuses a statement has before or instead of PROCESSED
UnprocessedStatuses == {"uploaded", "processing", "failed"}

\* C11: a runInsights request that reads the statement with a status other
\* than PROCESSED fails there and leaves the insight store unchanged; a
\* request goes on to the insight lookup only from a statement read as
\* PROCESSED; and an insight is stored only for a statement whose PROCESSED
\* update has been written.
C11_OnlyProcessedStatements ==
    /\ [](insightStore # << >> =>
             /\ statement.exists
             /\ uploadResponse.status = "processed"
             /\ insightStore[1].statementId = "s1")
    /\ [][\A r \in Requests :
            (reqPc[r] = "findStatement" /\ reqPc'[r] # "findStatement") =>
                /\ (statement.exists /\ statement.status \in UnprocessedStatuses) =>
                       /\ reqPc'[r] = "done"
                       /\ reqOutcome'[r].kind = "BadRequest"
                       /\ reqOutcome'[r].message =
                              "Statement must be processed before computing insights"
                       /\ insightStore' = insightStore
                /\ reqPc'[r] = "findInsight" =>
                       statement.exists /\ statement.status = "processed"
       ]_vars

\* requests were refused on a statement being ingested and on a failed one,
\* and nothing is stored
C11_Witness ==
    /\ reqPc["r1"] = "done" /\ reqPc["r2"] = "done"
    /\ reqOutcome["r1"].message = "Statement must be processed before computing insights"
    /\ reqOutcome["r2"].message = "Statement must be processed before computing insights"
    /\ statement.exists /\ statement.status = "failed"
    /\ upPc = "done"
    /\ insightStore = << >>

(***************************************************************************)
(* Properties of the analytics engine                                      *)
(***************************************************************************)
\* the sum, in cents, of the magnitudes of the rows of one type
RECURSIVE MagnitudeSum(_, _)
MagnitudeSum(rows, type) ==
    IF rows = << >> THEN 0
    ELSE (IF Head(rows).type = type THEN Head(rows).amount ELSE 0)
         + MagnitudeSum(Tail(rows), type)

IsStructuredResult(result) ==
    /\ result.success \in BOOLEAN
    /\ result.httpStatusCode >= 0
    /\ result.retryCount >= 0
    /\ ~result.success => result.error # UndefinedError

\* C13: checkCredit never ends with a rejected promise, whatever request it
\* is handed and whatever the downstream does; a call that has ended has
\* returned a structured result.
C13_NeverRejects ==
    \A c \in Calls :
        /\ ccPc[c] # "rejected"
        /\ ccPc[c] = "returned" => IsStructuredResult(ccResult[c])

\* attempts of call c whose result has not come back yet
AttemptsInFlight(c) == AttemptsMade(c) - Len(ResultsSeen(c))

\* C14: within one call an attempt goes out only after the result of the
\* previous one and one completed sleep: the events of a call follow the
\* pattern attempt, result, sleep, attempt, result, ..., at most one attempt
\* is in flight, the first event is an attempt and a call that has returned
\* ended on a result, not on a sleep.
C14_StrictlySequential ==
    \A c \in Calls :
        /\ AttemptsInFlight(c) \in {0, 1}
        /\ AttemptsInFlight(c) = 1 <=> ccPc[c] = "inflight"
        /\ ccTrace[c] # << >> => IsAttempt(ccTrace[c][1])
        /\ \A i \in 1..(Len(ccTrace[c]) - 1) :
              /\ IsAttempt(ccTrace[c][i]) => IsResult(ccTrace[c][i + 1])
              /\ IsResult(ccTrace[c][i]) => IsSleep(ccTrace[c][i + 1])
              /\ IsSleep(ccTrace[c][i]) => IsAttempt(ccTrace[c][i + 1])
        /\ SleepsMade(c) = (IF ccPc[c] = "sleeping" THEN AttemptsMade(c) ELSE AttemptsMade(c) - 1)
              \/ ccTrace[c] = << >>
        /\ ccPc[c] = "sleeping" <=> (ccTrace[c] # << >> /\ IsSleep(Last(ccTrace[c])))
        /\ ccPc[c] = "returned" => IsResult(Last(ccTrace[c]))

\* three attempts with a sleep between each two, then the return
C14_Witness ==
    /\ ccPc[1] = "returned"
    /\ Len(ccTrace[1]) = 8
    /\ AttemptsMade(1) = 3
    /\ SleepsMade(1) = 2
    /\ IsSleep(ccTrace[1][3]) /\ IsSleep(ccTrace[1][6])

\* the index of the result at which a call running alone returns: the first
\* success or permanent failure, or the result of attempt maxRetries
RECURSIVE ReturnsAt(_, _)
ReturnsAt(results, i) ==
    IF i > Len(results) THEN 0
    ELSE IF results[i].success
            \/ results[i].status \notin {0, 429, 500, 502, 503, 504}
            \/ i = maxRetries + 1
         THEN i
         ELSE ReturnsAt(results, i + 1)

\* the components of one call
CallState(c) == << ccPc[c], attempt[c], retryCount[c], lastError[c], httpStatusCode[c],
                   ccResult[c], ccTrace[c] >>

\* C15: with two calls interleaved, a call that has returned made exactly
\* the attempts, and returned the retryCount, success flag and status code,
\* that its own sequence of downstream results determines for a call running
\* alone; and no step changes the locals of more than one call or the
\* configuration.
C15_CallsIndependent ==
    /\ [](\A c \in Calls :
            ccPc[c] = "returned" =>
                LET results == ResultsSeen(c)
                    n == ReturnsAt(results, 1)
                IN /\ n = Len(results)
                   /\ AttemptsMade(c) = n
                   /\ ccResult[c].retryCount = n - 1
                   /\ ccResult[c].success = results[n].success
                   /\ ccResult[c].httpStatusCode = results[n].status)
    /\ [][/\ maxRetries' = maxRetries
          /\ \E c \in Calls : \A o \in Calls \ {c} : CallState(o)' = CallState(o)
       ]_vars

\* both calls have returned after one retry each, one with a success and
\* the other with the exhaustion result for a 503
C15_Witness ==
    /\ maxRetries = 1
    /\ ccPc[1] = "returned" /\ ccPc[2] = "returned"
    /\ ccResult[1].retryCount = 1 /\ ccResult[2].retryCount = 1
    /\ ccResult[1].success /\ ~ccResult[2].success
    /\ ccResult[2].httpStatusCode = 503

\* C16: the delay before retry attempt k is at least
\* min(baseDelay * 2^(k-1), 30000) ms, at most 1.3 * baseDelay * 2^(k-1) ms
\* and at most 30000 ms; with the default base delay of 1000 ms it lies in
\* [1000,1300], [2000,2600] and [4000,5200] ms for k = 1, 2, 3.
C16_BackoffBounds ==
    delayPc = "returned" =>
        LET k == delayAttempt
            uncapped == delayBase * Pow2(k - 1)
        IN /\ delayValue >= DelayScale * (IF uncapped < 30000 THEN uncapped ELSE 30000)
           /\ 10 * delayValue <= 13 * DelayScale * uncapped
           /\ delayValue <= DelayScale * 30000
           /\ (delayBase = 1000 /\ k = 1) =>
                  (DelayScale * 1000 <= delayValue /\ delayValue <= DelayScale * 1300)
           /\ (delayBase = 1000 /\ k = 2) =>
                  (DelayScale * 2000 <= delayValue /\ delayValue <= DelayScale * 2600)
           /\ (delayBase = 1000 /\ k = 3) =>
                  (DelayScale * 4000 <= delayValue /\ delayValue <= DelayScale * 5200)

\* a jittered delay before the third retry with the default base delay
C16_Witness ==
    /\ delayPc = "returned"
    /\ delayBase = 1000
    /\ delayAttempt = 3
    /\ delayValue > DelayScale * 4000
    /\ delayValue < DelayScale * 5200

(***************************************************************************)
(* Further properties of the upload                                        *)
(***************************************************************************)
\* the upload has returned and every status update it issued has been applied
UploadSettled == upPc = "done" /\ unawaited = {}

\* C17: once an upload in which no row parsed has returned and its status
\* updates have been applied, the statement (unless deleted) has status
\* FAILED, none of its transactions is stored, no insights computation was
\* triggered for it, and the upload reported FAILED with zero counts.
C17_ZeroSuccessIsTerminalFailure ==
    (UploadSettled /\ successfulRows = 0 /\ statement.exists) =>
        /\ statement.status = "failed"
        /\ txStore = << >>
        /\ reqPc["bg"] = "idle"
        /\ insightStore = << >>
        /\ uploadResponse = FailedResponse

\* C18: the chunked save stores the parsed transactions once each and in
\* input order: what is stored is always the first saveIndex collected
\* transactions, all of them when the loop has ended, and the upload that
\* reports PROCESSED reports totalRows, successfulRows and failedRows of the
\* pass, whatever the chunk size.
C18_ChunkingIsTransparent ==
    /\ txStore = SubSeq(transactions, 1,
                        IF saveIndex < Len(transactions) THEN saveIndex
                        ELSE Len(transactions))
    /\ upPc = "saved" => txStore = transactions
    /\ uploadResponse.status = "processed" =>
         /\ txStore = transactions
         /\ Len(txStore) = successfulRows
         /\ uploadResponse.transactionCount = totalRows
         /\ uploadResponse.successfulTransactions = successfulRows
         /\ uploadResponse.failedTransactions = failedRows
         /\ totalRows = Len(fileRows)

\* two parsed rows saved as two chunks of one
C18_Witness ==
    /\ uploadResponse.status = "processed"
    /\ chunkSize = 1
    /\ saveIndex = 2
    /\ Len(txStore) = 2
    /\ txStore[1] # txStore[2]

\* C19: the parsing statistics of a stored insight are the ingestion counts
\* of its statement: totalTransactions, successfulTransactions and
\* failedTransactions are totalRows, successfulRows and failedRows of the
\* upload, and parsingSuccessRate is successful / total (0 when total is 0).
C19_ParsingStatsEchoIngestion ==
    \A row \in Range(insightStore) :
        (statement.exists /\ uploadResponse.status = "processed") =>
            /\ row.insights.parsing.totalTransactions = totalRows
            /\ row.insights.parsing.successfulTransactions = successfulRows
            /\ row.insights.parsing.failedTransactions = failedRows
            /\ row.insights.parsing.parsingSuccessRate =
                   IF totalRows > 0 THEN RoundDiv(successfulRows * 10000, totalRows) ELSE 0

\* C20: an upload that reports PROCESSED has started the background
\* computation, and with no explicit request an insight of the statement
\* eventually exists.
C20_ProcessedLeadsToInsight ==
    /\ [][(uploadResponse.status # "processed" /\ uploadResponse'.status = "processed")
            => reqPc'["bg"] = "lookup"]_vars
    /\ (uploadResponse.status = "processed") ~> (insightStore # << >>)

\* C21: when the background computation started by the upload has failed and
\* the statement has no insight, the stored statement shows it: its status
\* is not the PROCESSED of a statement whose insights can be read.
C21_BackgroundFailureVisible ==
    (/\ reqPc["bg"] = "done"
     /\ reqOutcome["bg"].kind = "BadRequest"
     /\ statement.exists
     /\ unawaited = {}
     /\ insightStore = << >>) => statement.status # "processed"

\* a required field of the row has no alias with a value
Unresolved(row, fields) ==
    \A f \in Range(fields) : row[f] \in {Undefined, Null, << >>}

MissesRequiredField(row) ==
    \/ Unresolved(row, DateFields)
    \/ Unresolved(row, DescriptionFields)
    \/ Unresolved(row, AmountFields)

\* C22: for a row whose date, description or amount has no value under any
\* alias, parseRow returns null and does not throw, whatever the other cells
\* hold, and the 'data' handler that consumes the row counts it as failed
\* with the message of a null result and collects nothing.
C22_UnresolvableRowIsNull ==
    /\ [](\A n \in DOMAIN fileRows :
            MissesRequiredField(fileRows[n]) => ParseRow(fileRows[n], n).kind = "null")
    /\ [][(totalRows' = totalRows + 1 /\ MissesRequiredField(fileRows[totalRows + 1])) =>
            /\ failedRows' = failedRows + 1
            /\ successfulRows' = successfulRows
            /\ transactions' = transactions
            /\ errors' = Append(errors, RowError(totalRows + 1, InvalidDataFormat))]_vars

\* a row with a null amount and an invalid date has been counted as failed
\* after a row that parsed
C22_Witness ==
    /\ totalRows = 2
    /\ successfulRows = 1
    /\ failedRows = 1
    /\ fileRows[2] = WithField(InvalidDateRow, AmountFields, Null)

\* the signed amount of the row a collected transaction was parsed from
SignedAmount(t) == ParseFloat(CleanNumber(GetFieldValue(t.rawData, AmountFields))).cents

OverdraftsOf(txs) == Cardinality({ i \in DOMAIN txs : txs[i].balance < 0 })
FeesOf(txs) == SumOfAmounts(SelectSeq(txs, IsFee))
AverageBelow(txs, cents) == SumOfBalances(txs) < cents * Len(txs)

\* C24: the risk level returned for a transaction list is HIGH if there are
\* more than 5 overdrafts, more than 2 bounced payments or an average
\* balance under 50; otherwise MEDIUM if there are more than 2 overdrafts,
\* a bounced payment, an average balance under 200 or fees over 50;
\* otherwise LOW.
C24_RiskTiers ==
    computePc = "returned" =>
        LET bounced == computeOutput.risk.bouncedPaymentCount
            isHigh == \/ OverdraftsOf(computeInput) > 5
                      \/ bounced > 2
                      \/ AverageBelow(computeInput, 5000)
            isMedium == \/ OverdraftsOf(computeInput) > 2
                        \/ bounced > 0
                        \/ AverageBelow(computeInput, 20000)
                        \/ FeesOf(computeInput) > 5000
        IN /\ isHigh => computeOutput.risk.riskLevel = "high"
           /\ (~isHigh /\ isMedium) => computeOutput.risk.riskLevel = "medium"
           /\ (~isHigh /\ ~isMedium) => computeOutput.risk.riskLevel = "low"

\* HIGH on the overdraft count alone: six overdrafts, no bounced payment,
\* an average balance over 200 (both tiers match, the first one wins)
C24_Witness ==
    /\ computePc = "returned"
    /\ computeOutput.risk.riskLevel = "high"
    /\ OverdraftsOf(computeInput) = 6
    /\ computeOutput.risk.bouncedPaymentCount = 0
    /\ ~AverageBelow(computeInput, 20000)

\* the adjacent pairs of a list in which a debit over 100 that leaves a
\* negative balance is followed by a fee
BouncedPairs(txs) ==
    { i \in 1..(Len(txs) - 1) :
        /\ txs[i].type = "debit" /\ txs[i].amount > 10000 /\ txs[i].balance < 0
        /\ txs[i + 1].category = "fees_charges" }

\* C25: the bounced payment count returned for a transaction list is the
\* number of its adjacent pairs made of a debit over 100 with a negative
\* balance and a following fee, 0 for a list of one, and the bounced payment
\* flag is among the risk flags exactly when the count is above 0.
C25_BouncedPaymentPairs ==
    computePc = "returned" =>
        /\ computeOutput.risk.bouncedPaymentCount = Cardinality(BouncedPairs(computeInput))
        /\ Len(computeInput) = 1 => computeOutput.risk.bouncedPaymentCount = 0
        /\ (\E k \in DOMAIN computeOutput.risk.riskFlags :
                computeOutput.risk.riskFlags[k].text = "potential bounced payments")
             <=> computeOutput.risk.bouncedPaymentCount > 0
        /\ \A k \in DOMAIN computeOutput.risk.riskFlags :
                computeOutput.risk.riskFlags[k].text = "potential bounced payments"
                    => computeOutput.risk.riskFlags[k].n = computeOutput.risk.bouncedPaymentCount

\* one bounced payment counted in a list that also holds a debit over 100
\* followed by a non-fee, a small overdrawn debit followed by a fee and a
\* debit with no negative balance followed by a fee
C25_Witness ==
    /\ computePc = "returned"
    /\ computeOutput.risk.bouncedPaymentCount = 1
    /\ \E i, j, k, l \in 1..(Len(computeInput) - 1) :
          /\ computeInput[i].rawData = RentRow /\ computeInput[i + 1].rawData = RentRow
          /\ computeInput[j].rawData = BankFeeRow /\ computeInput[j + 1].rawData = CardFeeRow
          /\ computeInput[k].rawData = GroceryRow /\ computeInput[k + 1].rawData = CardFeeRow
          /\ computeInput[l].rawData = RentRow /\ computeInput[l + 1].rawData = BankFeeRow

\* the magnitudes of the debits of a list whose category is in a set
DebitsIn(txs, categories) ==
    SumOfAmounts(SelectSeq(txs, LAMBDA t : t.type = "debit" /\ t.category \in categories))

AllCategories == { t.category : t \in BucketTransactions }

MatchesAt(description, i, j) ==
    Includes(ToLowerCase(description), ToLowerCase(CategoryKeywords[i].keywords[j]))

\* no keyword before place (i, j), in table order, matches
NoneBefore(description, i, j) ==
    \A i2 \in 1..Len(CategoryKeywords) : \A j2 \in 1..Len(CategoryKeywords[i2].keywords) :
        (i2 < i \/ (i2 = i /\ j2 < j)) => ~MatchesAt(description, i2, j2)

C28_StatusOnlyMovesForward ==
    /\ [][(statement.exists /\ statement.status \in {"processed", "failed"})
            => statement'.status # "processing"]_vars
    /\ []((upPc = "done" /\ unawaited = {} /\ statement.exists)
            => statement.status \in {"processed", "failed"})

\* C29: when BureauService.checkCredit has completed, the report it created
\* is not PENDING; it is SUCCESS exactly when the call returned a result and
\* FAILED exactly when the call threw.
C29_ReportMatchesOutcome ==
    (bsPc = "done" /\ bureauReport.exists) =>
        /\ bureauReport.status # "pending"
        /\ bureauReport.status = "success" <=> bsOutcome = "returned"
        /\ bureauReport.status = "failed" <=> bsOutcome = "threw"

\* C30: a statement whose stored status is FAILED has no stored
\* transaction, whichever chunk of the save failed.
C30_FailedStatementHasNoTransactions ==
    (statement.exists /\ statement.status = "failed") => txStore = << >>

====
